---- MODULE Spec2Model ----
(***************************************************************************)
(* EOB audit tool: HTML / PDF claim extraction (html_to_json.py,           *)
(* pdf_to_json.py) and cross-source reconciliation (merge_json.py).        *)
(*                                                                         *)
(* Python str values are sequences of one-character strings, so that       *)
(* parsing, formatting and key concatenation are computed, not assumed.    *)
(* A Python dict with string keys is a function whose DOMAIN is its key    *)
(* set; an insertion-ordered dict used as an index is a sequence of        *)
(* <<key, value>> pairs.                                                   *)
(***************************************************************************)
EXTENDS Integers, Sequences, FiniteSets, TLC

VARIABLES documents, json_files, merged_claims, pc,
          html_content, feed, self, unique_claims, norm,
          directory, force, all_json_files

vars == <<documents, json_files, merged_claims, pc,
          html_content, feed, self, unique_claims, norm,
          directory, force, all_json_files>>

\* the state of one run of process_directory: the files of the directory, the
\* --force flag and the JSON files collected for the composite
dir_vars == <<directory, force, all_json_files>>

\* the state of one run of parse_html_to_json, tag event by tag event
parse_vars == <<html_content, feed, self, unique_claims>>

\* the state of the pipeline over the documents of a directory
pipeline_vars == <<documents, json_files, merged_claims>>

(***************************************************************************)
(* Text primitives (Python str methods and the re patterns of the source). *)
(***************************************************************************)
Digits == {"0", "1", "2", "3", "4", "5", "6", "7", "8", "9"}

DigitChars == <<"0", "1", "2", "3", "4", "5", "6", "7", "8", "9">>

LowerAlpha == <<"a", "b", "c", "d", "e", "f", "g", "h", "i", "j", "k", "l", "m",
                "n", "o", "p", "q", "r", "s", "t", "u", "v", "w", "x", "y", "z">>

UpperAlpha == <<"A", "B", "C", "D", "E", "F", "G", "H", "I", "J", "K", "L", "M",
                "N", "O", "P", "Q", "R", "S", "T", "U", "V", "W", "X", "Y", "Z">>

\* \s of the re module, restricted to the whitespace the inputs use
Whitespace == {" ", "\t", "\n"}

DigitVal(c) == CHOOSE n \in 0..9 : DigitChars[n + 1] = c

AllDigits(s) == \A i \in 1..Len(s) : s[i] \in Digits

RECURSIVE ToInt(_)
ToInt(s) ==
    IF s = <<>> THEN 0
    ELSE 10 * ToInt(SubSeq(s, 1, Len(s) - 1)) + DigitVal(s[Len(s)])

RECURSIVE IntToStr(_)
IntToStr(n) ==
    IF n < 10 THEN <<DigitChars[n + 1]>>
    ELSE IntToStr(n \div 10) \o <<DigitChars[(n % 10) + 1]>>

\* %m and %d of strftime: two digits, zero padded
Pad2(n) == IF n < 10 THEN <<"0">> \o IntToStr(n) ELSE IntToStr(n)

IsUpper(c) == \E i \in 1..26 : UpperAlpha[i] = c

IsLower(c) == \E i \in 1..26 : LowerAlpha[i] = c

LowerChar(c) ==
    IF IsUpper(c) THEN LowerAlpha[CHOOSE i \in 1..26 : UpperAlpha[i] = c] ELSE c

UpperChar(c) ==
    IF IsLower(c) THEN UpperAlpha[CHOOSE i \in 1..26 : LowerAlpha[i] = c] ELSE c

\* str.lower()
Lower(s) == [i \in 1..Len(s) |-> LowerChar(s[i])]

\* str.title(): a cased character is upper-cased after an uncased one, lower-cased otherwise
Title(s) ==
    [i \in 1..Len(s) |->
        IF i = 1 \/ ~(IsUpper(s[i - 1]) \/ IsLower(s[i - 1]))
        THEN UpperChar(s[i]) ELSE LowerChar(s[i])]

RECURSIVE LStrip(_)
LStrip(s) ==
    IF s # <<>> /\ s[1] \in Whitespace THEN LStrip(Tail(s)) ELSE s

RECURSIVE RStrip(_)
RStrip(s) ==
    IF s # <<>> /\ s[Len(s)] \in Whitespace
    THEN RStrip(SubSeq(s, 1, Len(s) - 1)) ELSE s

\* str.strip()
Strip(s) == LStrip(RStrip(s))

EndsWith(s, p) == Len(s) >= Len(p) /\ SubSeq(s, Len(s) - Len(p) + 1, Len(s)) = p

\* `p in s` for str
Contains(s, p) ==
    \E i \in 1..(Len(s) - Len(p) + 1) : SubSeq(s, i, i + Len(p) - 1) = p

\* index of the first occurrence of p in s (p occurs in s)
Find(s, p) ==
    CHOOSE i \in 1..(Len(s) - Len(p) + 1) :
        /\ SubSeq(s, i, i + Len(p) - 1) = p
        /\ \A j \in 1..(i - 1) : SubSeq(s, j, j + Len(p) - 1) # p

\* str.split(sep)
RECURSIVE Split(_, _)
Split(s, sep) ==
    IF ~Contains(s, sep) THEN <<s>>
    ELSE LET i == Find(s, sep)
         IN  <<SubSeq(s, 1, i - 1)>> \o Split(SubSeq(s, i + Len(sep), Len(s)), sep)

\* str.replace(old, new), old non-empty
RECURSIVE Replace(_, _, _)
Replace(s, old, new) ==
    IF ~Contains(s, old) THEN s
    ELSE LET i == Find(s, old)
         IN  SubSeq(s, 1, i - 1) \o new
                 \o Replace(SubSeq(s, i + Len(old), Len(s)), old, new)

\* dict.get(key, default)
Get(d, key, default) == IF key \in DOMAIN d THEN d[key] ELSE default

\* d with d[key] = value set (a new key is added)
Put(d, key, value) ==
    [k \in DOMAIN d \cup {key} |-> IF k = key THEN value ELSE d[k]]

\* del d[key]
Del(d, key) == [k \in DOMAIN d \ {key} |-> d[k]]

(***************************************************************************)
(* datetime.strptime / strftime for the three formats the source uses.     *)
(* A datetime is [ok, y, m, d]; ok = FALSE stands for the ValueError.      *)
(***************************************************************************)
FMT_MDY4 == [sep |-> "/", order |-> <<"m", "d", "Y">>]

FMT_MDY2 == [sep |-> "/", order |-> <<"m", "d", "y">>]

FMT_ISO == [sep |-> "-", order |-> <<"Y", "m", "d">>]

NoDate == [ok |-> FALSE, y |-> 0, m |-> 0, d |-> 0]

datetime(y, m, d) == [ok |-> TRUE, y |-> y, m |-> m, d |-> d]

IsLeap(y) == (y % 4 = 0 /\ y % 100 # 0) \/ y % 400 = 0

DaysInMonth(y, m) ==
    IF m = 2 THEN (IF IsLeap(y) THEN 29 ELSE 28)
    ELSE IF m \in {4, 6, 9, 11} THEN 30 ELSE 31

\* the value a directive reads from one field of the text, -1 when the
\* directive's pattern does not match the whole field
\*   %m  1[0-2]|0[1-9]|[1-9]        %d  3[01]|[12]\d|0[1-9]|[1-9]| [1-9]
\*   %Y  \d\d\d\d                    %y  \d\d  (00-68 -> 20xx, 69-99 -> 19xx)
Directive(p, dir) ==
    CASE dir = "m" ->
            IF Len(p) \in {1, 2} /\ AllDigits(p) /\ ToInt(p) >= 1
               /\ (IF Len(p) = 2 THEN ToInt(p) <= 12 ELSE TRUE)
            THEN ToInt(p) ELSE -1
      [] dir = "d" ->
            IF Len(p) \in {1, 2} /\ AllDigits(p) /\ ToInt(p) >= 1
               /\ (IF Len(p) = 2 THEN ToInt(p) <= 31 ELSE TRUE)
            THEN ToInt(p)
            ELSE IF Len(p) = 2 /\ p[1] = " " /\ p[2] \in Digits \ {"0"}
            THEN DigitVal(p[2]) ELSE -1
      [] dir = "Y" ->
            IF Len(p) = 4 /\ AllDigits(p) THEN ToInt(p) ELSE -1
      [] dir = "y" ->
            IF Len(p) = 2 /\ AllDigits(p)
            THEN (IF ToInt(p) <= 68 THEN 2000 + ToInt(p) ELSE 1900 + ToInt(p))
            ELSE -1

\* datetime.strptime(date_string, format)
strptime(date_string, format) ==
    LET parts == Split(date_string, <<format.sep>>)
    IN  IF Len(parts) # 3 THEN NoDate
        ELSE LET val(dir) ==
                     Directive(parts[CHOOSE i \in 1..3 : format.order[i] = dir], dir)
                 y == IF format.order[3] = "y" THEN val("y") ELSE val("Y")
                 m == val("m")
                 d == val("d")
             IN  IF y < 1 \/ m < 1 \/ d < 1 THEN NoDate
                 ELSE IF d > DaysInMonth(y, m) THEN NoDate
                 ELSE datetime(y, m, d)

\* faulty variant: the format is written day first, '%d/%m/%Y'
strftime_day_first(date_obj) ==
    Pad2(date_obj.d) \o <<"/">> \o Pad2(date_obj.m) \o <<"/">> \o IntToStr(date_obj.y)

\* date_obj.strftime('%Y-%m-%d')  (glibc: %Y is not zero padded)
strftime(date_obj) ==
    IntToStr(date_obj.y) \o <<"-">> \o Pad2(date_obj.m) \o <<"-">> \o Pad2(date_obj.d)

\* total order of datetime values, as an integer
Ordinal(date_obj) == date_obj.y * 10000 + date_obj.m * 100 + date_obj.d

(***************************************************************************)
(* Field normalizers (identical in html_to_json.py and pdf_to_json.py).    *)
(***************************************************************************)
\* faulty variant: the two-digit-year format is never tried
normalize_date_to_iso_no_yy(date_str) ==
    IF date_str = <<>> THEN <<>>
    ELSE IF strptime(date_str, FMT_MDY4).ok THEN strftime(strptime(date_str, FMT_MDY4))
    ELSE date_str

normalize_date_to_iso(date_str) ==
    IF date_str = <<>> THEN <<>>
    ELSE IF strptime(date_str, FMT_MDY4).ok THEN strftime(strptime(date_str, FMT_MDY4))
    ELSE IF strptime(date_str, FMT_MDY2).ok THEN strftime(strptime(date_str, FMT_MDY2))
    ELSE IF strptime(date_str, FMT_ISO).ok THEN date_str
    ELSE date_str

\* faulty variant: only the '$' is removed
normalize_amount_dollar_only(amount_str) ==
    IF amount_str = <<>> THEN <<>>
    ELSE SelectSeq(amount_str, LAMBDA c : c # "$")

\* re.sub(r'[\$,\s]', '', amount_str)
normalize_amount(amount_str) ==
    IF amount_str = <<>> THEN <<>>
    ELSE SelectSeq(amount_str, LAMBDA c : c \notin ({"$", ","} \cup Whitespace))

\* re.sub(r'\s*<word>\s*$', '', p, flags=re.IGNORECASE) for a literal word:
\* the trailing word, with the whitespace around it, is removed
StripSuffixWord(p, word) ==
    IF EndsWith(Lower(RStrip(p)), word)
    THEN RStrip(SubSeq(p, 1, Len(RStrip(p)) - Len(word)))
    ELSE p

\* p without its last n characters
DropLast(p, n) == SubSeq(p, 1, Len(p) - n)

\* re.sub(r'\s*physicians?\s*&\s*facilities?\s*$', '', p, flags=re.IGNORECASE)
StripPhysiciansFacilities(p) ==
    LET a == RStrip(p)
        la == Lower(a)
        b == IF EndsWith(la, <<"f", "a", "c", "i", "l", "i", "t", "i", "e", "s">>)
             THEN RStrip(DropLast(a, 10))
             ELSE IF EndsWith(la, <<"f", "a", "c", "i", "l", "i", "t", "i", "e">>)
             THEN RStrip(DropLast(a, 9))
             ELSE <<>>
        c == IF EndsWith(b, <<"&">>) THEN RStrip(DropLast(b, 1)) ELSE <<>>
        lc == Lower(c)
    IN  IF EndsWith(lc, <<"p", "h", "y", "s", "i", "c", "i", "a", "n", "s">>)
        THEN RStrip(DropLast(c, 10))
        ELSE IF EndsWith(lc, <<"p", "h", "y", "s", "i", "c", "i", "a", "n">>)
        THEN RStrip(DropLast(c, 9))
        ELSE p

\* html_to_json.normalize_provider
normalize_provider(provider) ==
    IF provider = <<>> THEN <<>>
    ELSE LET p0 == Strip(provider)
             p1 == IF Contains(Lower(p0), <<"<", "b", "r">>)
                   THEN Split(p0, <<"<", "b", "r">>)[1] ELSE p0
             p2 == StripPhysiciansFacilities(p1)
             p3 == StripSuffixWord(p2, <<"h", "o", "s", "p", "i", "t", "a", "l">>)
         IN  Strip(p3)

(***************************************************************************)
(* merge_json.py: cross-source reconciliation.                             *)
(***************************************************************************)
TAG_PDF == <<"P", "D", "F">>

TAG_HTML == <<"H", "T", "M", "L">>

\* the label of an HTML claim without a PDF icon (the spec's HTML-no-icon)
TAG_HTML_NO_ICON == <<"(", "H", "T", "M", "L", ")">>

TAG_BOTH == <<"B", "O", "T", "H">>

HTML_PREFIX == <<"H", "T", "M", "L", "_">>

make_unique_key(claim, include_status) ==
    LET key == claim["Date"] \o <<"|">> \o claim["Billed Amt"] \o <<"|">>
                   \o claim["Plan Payment"] \o <<"|">> \o claim["You May Owe"]
    IN  IF include_status THEN key \o <<"|">> \o Get(claim, "Status", <<>>) ELSE key

make_pdf_matching_key(claim) ==
    claim["Date"] \o <<"|">> \o claim["Billed Amt"] \o <<"|">>
        \o claim["Plan Payment"] \o <<"|">> \o claim["You May Owe"]

\* insertion-ordered dict: a sequence of <<key, value>>
DictKeys(d) == {d[i][1] : i \in 1..Len(d)}

\* d[key] = value: an existing key keeps its position
DictSet(d, key, value) ==
    IF key \in DictKeys(d)
    THEN [i \in 1..Len(d) |-> IF d[i][1] = key THEN <<key, value>> ELSE d[i]]
    ELSE Append(d, <<key, value>>)

\* list(d.values())
DictValues(d) == [i \in 1..Len(d) |-> d[i][2]]

\* faulty variant: the two labels are swapped
HtmlLabel_swapped(claim) ==
    IF ~Get(claim, "has_pdf_icon", TRUE) THEN TAG_HTML ELSE TAG_HTML_NO_ICON

\* the label of an HTML claim that matched no PDF claim
HtmlLabel(claim) ==
    IF ~Get(claim, "has_pdf_icon", TRUE) THEN TAG_HTML_NO_ICON ELSE TAG_HTML

\* first pass, one HTML claim: first-seen record per 5-field key
AddHtmlClaim(html_claims_dict, claim) ==
    LET key == make_unique_key(claim, TRUE)
    IN  IF key \notin DictKeys(html_claims_dict)
        THEN DictSet(html_claims_dict, key, Put(claim, "In PDF/HTML?", HtmlLabel(claim)))
        ELSE html_claims_dict

\* first pass, one PDF claim: first-seen record per 4-field key
AddPdfClaim(pdf_claims_dict, claim) ==
    LET key == make_unique_key(claim, FALSE)
    IN  IF key \notin DictKeys(pdf_claims_dict)
        THEN DictSet(pdf_claims_dict, key, Put(claim, "In PDF/HTML?", TAG_PDF))
        ELSE pdf_claims_dict

RECURSIVE AddClaims(_, _, _)
AddClaims(dict, claims, source) ==
    IF claims = <<>> THEN dict
    ELSE LET prev == AddClaims(dict, SubSeq(claims, 1, Len(claims) - 1), source)
             claim == claims[Len(claims)]
         IN  IF source = "HTML" THEN AddHtmlClaim(prev, claim)
             ELSE AddPdfClaim(prev, claim)

\* first pass over zip(json_files, sources): [html |-> dict, pdf |-> dict]
RECURSIVE FirstPass(_, _)
FirstPass(files, sources) ==
    IF files = <<>> \/ sources = <<>> THEN [html |-> <<>>, pdf |-> <<>>]
    ELSE LET n == IF Len(files) < Len(sources) THEN Len(files) ELSE Len(sources)
             prev == FirstPass(SubSeq(files, 1, n - 1), SubSeq(sources, 1, n - 1))
         IN  IF sources[n] = "HTML"
             THEN [prev EXCEPT !.html = AddClaims(prev.html, files[n], "HTML")]
             ELSE [prev EXCEPT !.pdf = AddClaims(prev.pdf, files[n], "PDF")]

\* faulty variant: a PDF claim is matched by one HTML claim only, the first
\* with its 4-field key
HtmlClaimsMatchedToPdf_one_to_one(html_claims_dict, pdf_claims_dict) ==
    {html_claims_dict[i][1] : i \in
        {j \in 1..Len(html_claims_dict) :
            /\ Get(html_claims_dict[j][2], "has_pdf_icon", TRUE)
            /\ make_pdf_matching_key(html_claims_dict[j][2]) \in DictKeys(pdf_claims_dict)
            /\ \A m \in 1..(j - 1) :
                  make_pdf_matching_key(html_claims_dict[m][2])
                      # make_pdf_matching_key(html_claims_dict[j][2])}}

\* the 5-field keys of the HTML claims with a PDF icon whose 4-field key is
\* in the PDF index (html_claims_matched_to_pdf)
HtmlClaimsMatchedToPdf(html_claims_dict, pdf_claims_dict) ==
    {html_claims_dict[i][1] : i \in
        {j \in 1..Len(html_claims_dict) :
            /\ Get(html_claims_dict[j][2], "has_pdf_icon", TRUE)
            /\ make_pdf_matching_key(html_claims_dict[j][2]) \in DictKeys(pdf_claims_dict)}}

\* faulty variant: no PDF key is ever recorded as matched
MatchedPdfKeys_none(html_claims_dict, pdf_claims_dict) == {}

\* the 4-field keys of the PDF claims some HTML claim with a PDF icon matched
\* (matched_pdf_keys)
MatchedPdfKeys(html_claims_dict, pdf_claims_dict) ==
    {make_pdf_matching_key(html_claims_dict[i][2]) : i \in
        {j \in 1..Len(html_claims_dict) :
            /\ Get(html_claims_dict[j][2], "has_pdf_icon", TRUE)
            /\ make_pdf_matching_key(html_claims_dict[j][2]) \in DictKeys(pdf_claims_dict)}}

\* faulty variant: has_pdf_icon is left on the output record
DropIcon_kept(claim_copy) == claim_copy

\* claim_copy without has_pdf_icon
DropIcon(claim) ==
    IF "has_pdf_icon" \in DOMAIN claim THEN Del(claim, "has_pdf_icon") ELSE claim

\* faulty variant: a claim without has_pdf_icon counts as a claim without icon
MergedHtmlClaim_missing_as_false(html_key_5field, html_claim, html_claims_matched_to_pdf) ==
    IF html_key_5field \in html_claims_matched_to_pdf /\ "has_pdf_icon" \in DOMAIN html_claim
    THEN DropIcon(Put(html_claim, "In PDF/HTML?", TAG_BOTH))
    ELSE Put(DropIcon(html_claim), "In PDF/HTML?",
             IF Get(html_claim, "has_pdf_icon", FALSE) THEN TAG_HTML ELSE TAG_HTML_NO_ICON)

\* one HTML claim of the second loop, as stored in all_claims_dict
MergedHtmlClaim(html_key_5field, html_claim, html_claims_matched_to_pdf) ==
    IF html_key_5field \in html_claims_matched_to_pdf
    THEN DropIcon(Put(html_claim, "In PDF/HTML?", TAG_BOTH))
    ELSE Put(DropIcon(html_claim), "In PDF/HTML?", HtmlLabel(html_claim))

\* all HTML claims first: all_claims_dict after the loop over html_claims_dict
RECURSIVE AddHtmlClaims(_, _)
AddHtmlClaims(html_claims_dict, html_claims_matched_to_pdf) ==
    IF html_claims_dict = <<>> THEN <<>>
    ELSE LET n == Len(html_claims_dict)
             prev == AddHtmlClaims(SubSeq(html_claims_dict, 1, n - 1),
                                   html_claims_matched_to_pdf)
         IN  DictSet(prev, HTML_PREFIX \o html_claims_dict[n][1],
                     MergedHtmlClaim(html_claims_dict[n][1], html_claims_dict[n][2],
                                     html_claims_matched_to_pdf))

\* add unmatched PDF claims
RECURSIVE AddUnmatchedPdf(_, _, _)
AddUnmatchedPdf(all_claims_dict, pdf_claims_dict, matched_pdf_keys) ==
    IF pdf_claims_dict = <<>> THEN all_claims_dict
    ELSE LET n == Len(pdf_claims_dict)
             prev == AddUnmatchedPdf(all_claims_dict, SubSeq(pdf_claims_dict, 1, n - 1),
                                     matched_pdf_keys)
         IN  IF pdf_claims_dict[n][1] \notin matched_pdf_keys
             THEN DictSet(prev, pdf_claims_dict[n][1], pdf_claims_dict[n][2])
             ELSE prev

\* the datetime an invalid date sorts as
SORT_SENTINEL == datetime(1900, 1, 1)

sort_key(claim) ==
    LET parsed == strptime(Get(claim, "Date", <<>>), FMT_ISO)
    IN  IF parsed.ok THEN parsed ELSE SORT_SENTINEL

\* list.sort(key=sort_key, reverse=True): stable, descending
RECURSIVE SortClaims(_)
SortClaims(claims) ==
    IF claims = <<>> THEN <<>>
    ELSE LET n == Len(claims)
             sorted == SortClaims(SubSeq(claims, 1, n - 1))
             x == claims[n]
             k == Cardinality({i \in 1..(n - 1) :
                      Ordinal(sort_key(sorted[i])) >= Ordinal(sort_key(x))})
         IN  SubSeq(sorted, 1, k) \o <<x>> \o SubSeq(sorted, k + 1, n - 1)

\* merge_claims(json_files, sources): files are the loaded claim lists
merge_claims(files, sources) ==
    LET first == FirstPass(files, sources)
        matched_pdf_keys == MatchedPdfKeys(first.html, first.pdf)
        html_claims_matched_to_pdf == HtmlClaimsMatchedToPdf(first.html, first.pdf)
        html_added == AddHtmlClaims(first.html, html_claims_matched_to_pdf)
        all_claims_dict == AddUnmatchedPdf(html_added, first.pdf, matched_pdf_keys)
    IN  SortClaims(DictValues(all_claims_dict))

(***************************************************************************)
(* html_to_json.py: parse_html_to_json after parser.feed().                *)
(* parser = [claims, current_claim, rows]: the stacked-layout field maps   *)
(* flushed so far, the open accumulator, and the traditional rows.         *)
(***************************************************************************)
EmptyDict == [k \in {} |-> <<>>]

\* faulty variant: the open accumulator is dropped at end of document
FinalClaims_without_open(parser) == parser.claims

\* the open accumulator is flushed at end of document if it has a date
FinalClaims(parser) ==
    IF parser.current_claim # EmptyDict /\ "date" \in DOMAIN parser.current_claim
       /\ parser.current_claim["date"] # <<>>
    THEN Append(parser.claims, parser.current_claim)
    ELSE parser.claims

\* "skip rows where date doesn't look like a date"
LooksLikeDate(date_str) ==
    ~(date_str = <<>>
      \/ (~Contains(date_str, <<"/">>) /\ ~Contains(date_str, <<"-">>) /\ Len(date_str) < 6))

MemberName(member_raw) == IF member_raw # <<>> THEN Strip(Title(member_raw)) ELSE <<>>

\* a stacked-layout field map is converted, not skipped
StackedKept(claim_data) ==
    LET date_str == Strip(Get(claim_data, "date", <<>>))
    IN  date_str # <<>> /\ LooksLikeDate(date_str) /\ normalize_date_to_iso(date_str) # <<>>

\* the claim built from one stacked-layout field map
StackedClaim(claim_data) ==
    LET date_str == Strip(Get(claim_data, "date", <<>>))
        eob_reference_raw == Strip(Get(claim_data, "eob_reference", <<>>))
        claim == [k \in {"Date", "Member", "Facility/Physician", "Service", "Billed Amt",
                         "Plan Payment", "You May Owe", "Status"} |->
                    CASE k = "Date" -> normalize_date_to_iso(date_str)
                      [] k = "Member" -> MemberName(Strip(Get(claim_data, "member", <<>>)))
                      [] k = "Facility/Physician" ->
                            normalize_provider(Strip(Get(claim_data, "provider", <<>>)))
                      [] k = "Service" -> <<>>
                      [] k = "Billed Amt" ->
                            normalize_amount(Strip(Get(claim_data, "billed", <<>>)))
                      [] k = "Plan Payment" ->
                            normalize_amount(Strip(Get(claim_data, "plan_payment", <<>>)))
                      [] k = "You May Owe" ->
                            normalize_amount(Strip(Get(claim_data, "you_owe", <<>>)))
                      [] k = "Status" -> Strip(Get(claim_data, "status", <<>>))]
        with_eob == IF eob_reference_raw # <<>>
                    THEN Put(claim, "EOB Reference", eob_reference_raw) ELSE claim
    IN  Put(with_eob, "has_pdf_icon",
            eob_reference_raw # <<>> /\ Strip(eob_reference_raw) # <<>>)

RECURSIVE ConvertStacked(_)
ConvertStacked(raw_claims) ==
    IF raw_claims = <<>> THEN <<>>
    ELSE LET n == Len(raw_claims)
             prev == ConvertStacked(SubSeq(raw_claims, 1, n - 1))
         IN  IF StackedKept(raw_claims[n])
             THEN Append(prev, StackedClaim(raw_claims[n])) ELSE prev

\* key = (Date, Facility/Physician, Billed Amt, eob, status)
StackedDedupKey(claim) ==
    <<Get(claim, "Date", <<>>), Get(claim, "Facility/Physician", <<>>),
      Get(claim, "Billed Amt", <<>>), Get(claim, "EOB Reference", <<>>),
      Get(claim, "Status", <<>>)>>

\* faulty variant: the stacked claims are grouped by Date, the three amounts
\* and Status
RECURSIVE DedupStacked_five_field(_)
DedupStacked_five_field(claims) ==
    IF claims = <<>> THEN <<>>
    ELSE LET n == Len(claims)
             prev == DedupStacked_five_field(SubSeq(claims, 1, n - 1))
         IN  IF \E j \in 1..(n - 1) :
                    make_unique_key(claims[j], TRUE) = make_unique_key(claims[n], TRUE)
             THEN prev
             ELSE Append(prev, IF "EOB Reference" \in DOMAIN claims[n]
                               THEN Del(claims[n], "EOB Reference") ELSE claims[n])

\* first-seen claim per key, EOB Reference removed
RECURSIVE DedupStacked(_)
DedupStacked(claims) ==
    IF claims = <<>> THEN <<>>
    ELSE LET n == Len(claims)
             prev == DedupStacked(SubSeq(claims, 1, n - 1))
         IN  IF \E j \in 1..(n - 1) : StackedDedupKey(claims[j]) = StackedDedupKey(claims[n])
             THEN prev
             ELSE Append(prev, IF "EOB Reference" \in DOMAIN claims[n]
                               THEN Del(claims[n], "EOB Reference") ELSE claims[n])

\* faulty variant: every row of at least 6 cells that is not the header row is
\* converted
TraditionalKept_any_date(row) == ~(Len(row) < 6 \/ row[2] = <<"D", "a", "t", "e">>)

\* a traditional row is converted, not skipped (row[1] is the second cell)
TraditionalKept(row) ==
    /\ ~(Len(row) < 6 \/ row[2] = <<"D", "a", "t", "e">>)
    /\ LooksLikeDate(Strip(row[2]))
    /\ normalize_date_to_iso(Strip(row[2])) # <<>>

Cell(row, i) == IF Len(row) > i THEN Strip(row[i + 1]) ELSE <<>>

\* the claim built from one traditional row
TraditionalClaim(row) ==
    [k \in {"Date", "Member", "Facility/Physician", "Service", "Billed Amt",
            "Plan Payment", "You May Owe", "Status"} |->
        CASE k = "Date" -> normalize_date_to_iso(Strip(row[2]))
          [] k = "Member" -> MemberName(Cell(row, 2))
          [] k = "Facility/Physician" -> normalize_provider(Cell(row, 3))
          [] k = "Service" -> <<>>
          [] k = "Billed Amt" -> normalize_amount(Cell(row, 4))
          [] k = "Plan Payment" -> normalize_amount(Cell(row, 5))
          [] k = "You May Owe" -> normalize_amount(Cell(row, 6))
          [] k = "Status" -> Cell(row, 7)]

RECURSIVE ConvertTraditional(_)
ConvertTraditional(rows) ==
    IF rows = <<>> THEN <<>>
    ELSE LET n == Len(rows)
             prev == ConvertTraditional(SubSeq(rows, 1, n - 1))
         IN  IF TraditionalKept(rows[n])
             THEN Append(prev, TraditionalClaim(rows[n])) ELSE prev

\* key = (Date, Facility/Physician, Billed Amt)
TraditionalDedupKey(claim) ==
    <<Get(claim, "Date", <<>>), Get(claim, "Facility/Physician", <<>>),
      Get(claim, "Billed Amt", <<>>)>>

RECURSIVE DedupTraditional(_)
DedupTraditional(claims) ==
    IF claims = <<>> THEN <<>>
    ELSE LET n == Len(claims)
             prev == DedupTraditional(SubSeq(claims, 1, n - 1))
         IN  IF \E j \in 1..(n - 1) :
                    TraditionalDedupKey(claims[j]) = TraditionalDedupKey(claims[n])
             THEN prev ELSE Append(prev, claims[n])

\* faulty variant: the claims of the traditional rows follow the stacked claims
parse_html_to_json_both_layouts(parser) ==
    DedupStacked(ConvertStacked(FinalClaims(parser)))
        \o DedupTraditional(ConvertTraditional(parser.rows))

\* parse_html_to_json: the stacked layout first, the traditional rows otherwise
parse_html_to_json(parser) ==
    IF FinalClaims(parser) # <<>>
    THEN DedupStacked(ConvertStacked(FinalClaims(parser)))
    ELSE DedupTraditional(ConvertTraditional(parser.rows))

(***************************************************************************)
(* pdf_to_json.py: parse_pdf_to_json.  The text of one "CLAIM #" section   *)
(* is given by what the patterns of the source read from it:               *)
(*   "Service Dates"  the text after 'Service Dates:' and its whitespace   *)
(*   "CLAIM TOTAL"    the run of currency numbers after 'CLAIM TOTAL'      *)
(*   "DETAIL"         the run ending the first service-category line       *)
(*   "GRAND TOTAL"    the run after 'GRAND TOTAL'                          *)
(*   "Provider"       the text between 'Provider:' and 'Processed'         *)
(*   "Processed As"   the rest of the line after 'Processed As:'           *)
(*   "Service"        the first service description of the vocabulary      *)
(*   "Mentions"       the provider names of the fallback table it contains *)
(* A key is absent when the section does not contain the label.            *)
(***************************************************************************)
AMOUNT_COUNT == 11

PLAN_PAYMENT_COLUMN == 5

\* \d{2}/\d{2} at the start of s
DayMonthPrefix(s) ==
    /\ Len(s) >= 5
    /\ s[1] \in Digits /\ s[2] \in Digits /\ s[3] = "/"
    /\ s[4] \in Digits /\ s[5] \in Digits

\* group(1) of Service Dates:\s+(\d{2}/\d{2}/20\d{2}), else of
\* Service Dates:\s+(\d{2}/\d{2}/\d{2}); <<>> when neither matches
ServiceDateMatch(section) ==
    IF "Service Dates" \notin DOMAIN section THEN <<>>
    ELSE LET s == section["Service Dates"]
         IN  IF DayMonthPrefix(s) /\ Len(s) >= 10 /\ s[6] = "/" /\ s[7] = "2" /\ s[8] = "0"
                /\ s[9] \in Digits /\ s[10] \in Digits
             THEN SubSeq(s, 1, 10)
             ELSE IF DayMonthPrefix(s) /\ Len(s) >= 8 /\ s[6] = "/"
                     /\ s[7] \in Digits /\ s[8] \in Digits
             THEN SubSeq(s, 1, 8)
             ELSE <<>>

\* service_date: the normalized match, '' when neither pattern matches
ServiceDate(section) ==
    IF ServiceDateMatch(section) # <<>>
    THEN normalize_date_to_iso(ServiceDateMatch(section)) ELSE <<>>

\* ((?:\s+\$[\d,]+\.\d{2}){11}) matches in the run of numbers of the tier
TierMatches(section, tier) ==
    tier \in DOMAIN section /\ Len(section[tier]) >= AMOUNT_COUNT

\* the 11 numbers of the group: the first 11 directly after 'CLAIM TOTAL' and
\* 'GRAND TOTAL'; the last 11 of the service-category line, whose greedy
\* [^\n]* takes the numbers before them
TierAmounts(section, tier) ==
    IF tier = "DETAIL"
    THEN SubSeq(section[tier], Len(section[tier]) - AMOUNT_COUNT + 1, Len(section[tier]))
    ELSE SubSeq(section[tier], 1, AMOUNT_COUNT)

\* the tier the amounts are taken from, "none" when the section is skipped
AmountTier(section) ==
    IF TierMatches(section, "CLAIM TOTAL") THEN "CLAIM TOTAL"
    ELSE IF TierMatches(section, "DETAIL") THEN "DETAIL"
    ELSE IF TierMatches(section, "GRAND TOTAL") THEN "GRAND TOTAL"
    ELSE "none"

\* the alternative provider detection: <<names looked for, provider>>
PROVIDER_TABLE ==
    << <<{<<"T", "E", "X", "A", "S", " ", "A", "N", "E", "S", "T", "H", "E", "S", "I", "A", " ", "P", "A", "R", "T", "N", "E", "R", "S", " ", "P", "L", "L", "C">>}, <<"T", "E", "X", "A", "S", " ", "A", "N", "E", "S", "T", "H", "E", "S", "I", "A", " ", "P", "A", "R", "T", "N", "E", "R", "S", " ", "P", "L", "L", "C">>>>,
       <<{<<"T", "R", "A", "V", "I", "S", " ", "D", ".", " ", "H", "A", "Y", "D", "E", "N">>, <<"T", "R", "A", "V", "I", "S", " ", "H", "A", "Y", "D", "E", "N">>}, <<"T", "R", "A", "V", "I", "S", " ", "D", ".", " ", "H", "A", "Y", "D", "E", "N">>>>,
       <<{<<"J", "O", "N", "A", "T", "H", "A", "N", " ", "D", ".", " ", "R", "I", "N", "G", "E", "N", "B", "E", "R", "G">>, <<"J", "O", "N", "A", "T", "H", "A", "N", " ", "R", "I", "N", "G", "E", "N", "B", "E", "R", "G">>}, <<"J", "O", "N", "A", "T", "H", "A", "N", " ", "D", ".", " ", "R", "I", "N", "G", "E", "N", "B", "E", "R", "G">>>>,
       <<{<<"A", "T", "H", "L", "E", "T", "I", "C", "O", " ", "L", "T", "D">>}, <<"A", "T", "H", "L", "E", "T", "I", "C", "O", " ", "L", "T", "D">>>>,
       <<{<<"J", "O", "H", "N", " ", "E", ".", " ", "M", "C", "G", "A", "R", "R", "Y">>, <<"J", "O", "H", "N", " ", "M", "C", "G", "A", "R", "R", "Y">>}, <<"J", "O", "H", "N", " ", "E", ".", " ", "M", "C", "G", "A", "R", "R", "Y">>>>,
       <<{<<"D", "A", "N", " ", "M", ".", " ", "N", "G", "U", "Y", "E", "N">>, <<"D", "A", "N", " ", "N", "G", "U", "Y", "E", "N">>}, <<"D", "A", "N", " ", "M", ".", " ", "N", "G", "U", "Y", "E", "N">>>>,
       <<{<<"M", "E", "T", "H", "O", "D", "I", "S", "T", " ", "C", "D", "I">>}, <<"M", "E", "T", "H", "O", "D", "I", "S", "T", " ", "C", "D", "I">>>>,
       <<{<<"Q", "U", "E", "S", "T", " ", "D", "I", "A", "G", "N", "O", "S", "T", "I", "C">>}, <<"Q", "U", "E", "S", "T", " ", "D", "I", "A", "G", "N", "O", "S", "T", "I", "C", " ", "C", "L", "I", "N", "I", "C", "A", "L", " ", "L", "A", "B", " ", "I", ".">>>>,
       <<{<<"C", "A", "T", "A", "L", "Y", "S", "T", " ", "P", "H", "Y", "S", "I", "C", "I", "A", "N">>}, <<"C", "A", "T", "A", "L", "Y", "S", "T", " ", "P", "H", "Y", "S", "I", "C", "I", "A", "N", " ", "G", "R", "O", "U", "P", " ", "N", "T", "X", " ", "P">>>>,
       <<{<<"T", "E", "X", "A", "S", " ", "O", "N", "C", "O", "L", "O", "G", "Y">>}, <<"T", "E", "X", "A", "S", " ", "O", "N", "C", "O", "L", "O", "G", "Y", " ", "P", "A">>>> >>

PdfProvider(section) ==
    IF "Provider" \in DOMAIN section THEN Strip(section["Provider"])
    ELSE LET mentions == Get(section, "Mentions", {})
             hits == {i \in 1..Len(PROVIDER_TABLE) : PROVIDER_TABLE[i][1] \cap mentions # {}}
         IN  IF hits = {} THEN <<"U", "n", "k", "n", "o", "w", "n">>
             ELSE PROVIDER_TABLE[CHOOSE i \in hits : \A j \in hits : i <= j][2]

PdfStatus(section) ==
    IF "Processed As" \in DOMAIN section THEN Strip(section["Processed As"])
    ELSE <<"I", "n", "-", "N", "e", "t", "w", "o", "r", "k">>

\* patient_match.group(1).strip().replace('\n', ' ').replace(' P', '').strip()
PatientName(pdf) ==
    IF "Patient" \in DOMAIN pdf
    THEN Strip(Replace(Replace(Strip(pdf["Patient"]), <<"\n">>, <<" ">>), <<" ", "P">>, <<>>))
    ELSE <<>>

\* the claim built from one section whose amounts were found
PdfClaim(section, patient_name) ==
    LET amounts == TierAmounts(section, AmountTier(section))
    IN  [k \in {"Date", "Member", "Facility/Physician", "Service", "Billed Amt",
                "Plan Payment", "You May Owe", "Status"} |->
            CASE k = "Date" -> ServiceDate(section)
              [] k = "Member" -> patient_name
              [] k = "Facility/Physician" -> PdfProvider(section)
              [] k = "Service" -> Get(section, "Service", <<>>)
              [] k = "Billed Amt" -> normalize_amount(amounts[1])
              [] k = "Plan Payment" -> normalize_amount(amounts[PLAN_PAYMENT_COLUMN])
              [] k = "You May Owe" -> normalize_amount(amounts[AMOUNT_COUNT])
              [] k = "Status" -> PdfStatus(section)]

RECURSIVE ConvertSections(_, _)
ConvertSections(sections, patient_name) ==
    IF sections = <<>> THEN <<>>
    ELSE LET n == Len(sections)
             prev == ConvertSections(SubSeq(sections, 1, n - 1), patient_name)
         IN  IF AmountTier(sections[n]) # "none"
             THEN Append(prev, PdfClaim(sections[n], patient_name)) ELSE prev

\* parse_pdf_to_json: pdf = [Patient (optional), sections]
parse_pdf_to_json(pdf) == ConvertSections(pdf.sections, PatientName(pdf))

(***************************************************************************)
(* Input documents.                                                        *)
(***************************************************************************)
\* the total number of field maps, rows and sections over all documents
MaxClaims == 3

\* the number of documents of one run
MaxDocuments == 2

RawClaim(date, status, eob) ==
    LET base == [k \in {"date", "member", "provider", "billed", "plan_payment",
                        "you_owe", "status"} |->
                    CASE k = "date" -> date
                      [] k = "member" -> <<"A", "N", "N", " ", "L", "E", "E">>
                      [] k = "provider" -> <<"C", "i", "t", "y", " ", "H", "o", "s", "p", "i", "t", "a", "l">>
                      [] k = "billed" -> <<"$", "1", "0", "0", ".", "0", "0">>
                      [] k = "plan_payment" -> <<"$", "8", "0", ".", "0", "0">>
                      [] k = "you_owe" -> <<"$", "2", "0", ".", "0", "0">>
                      [] k = "status" -> status]
    IN  IF eob = <<>> THEN base ELSE Put(base, "eob_reference", eob)

\* stacked-layout field maps as the parser flushes them (the date is never empty)
RawClaims ==
    { RawClaim(<<"0", "3", "/", "0", "1", "/", "2", "0", "2", "4">>, <<"P", "a", "i", "d">>, <<"E", "1">>),
      RawClaim(<<"0", "3", "/", "0", "1", "/", "2", "0", "2", "4">>, <<"P", "a", "i", "d">>, <<>>),
      RawClaim(<<"0", "3", "/", "0", "1", "/", "2", "0", "2", "4">>, <<"R", "e", "f", "u", "n", "d">>, <<"E", "1">>),
      RawClaim(<<"n", "/", "a">>, <<"P", "a", "i", "d">>, <<>>),
      RawClaim(<<"1", "2", "/", "3", "1", "/", "1", "8", "9", "9">>, <<"P", "a", "i", "d">>, <<>>) }

\* traditional rows as the parser keeps them (at least 6 cells)
TraditionalRows ==
    { <<<<>>, <<"D", "a", "t", "e">>, <<"M", "e", "m", "b", "e", "r">>, <<"P", "r", "o", "v", "i", "d", "e", "r">>, <<"B", "i", "l", "l", "e", "d">>, <<"P", "l", "a", "n">>, <<"O", "w", "e">>, <<"S", "t", "a", "t", "u", "s">>>>,
      <<<<>>, <<"0", "4", "/", "0", "2", "/", "2", "0", "2", "4">>, <<"a", "n", "n", " ", "l", "e", "e">>, <<"C", "l", "i", "n", "i", "c">>, <<"$", "1", "0", "0", ".", "0", "0">>, <<"$", "8", "0", ".", "0", "0">>, <<"N", "/", "A">>,
        <<"P", "a", "i", "d">>>>,
      <<<<>>, <<"0", "4", "/", "0", "2", "/", "2", "4">>, <<"a", "n", "n", " ", "l", "e", "e">>, <<"C", "l", "i", "n", "i", "c">>, <<"$", "1", ",", "1", "0", "0", ".", "0", "0">>, <<"$", "8", "0", ".", "0", "0">>, <<"$", "2", "0", ".", "0", "0">>, <<"P", "a", "i", "d">>>> }

Amounts11(billed, plan, owe) ==
    [i \in 1..11 |-> IF i = 1 THEN billed ELSE IF i = 5 THEN plan
                     ELSE IF i = 11 THEN owe ELSE <<"$", "0", ".", "0", "0">>]

PdfSections ==
    { [k \in {"Service Dates", "CLAIM TOTAL", "Provider", "Processed As"} |->
          CASE k = "Service Dates" -> <<"0", "3", "/", "0", "1", "/", "2", "0", "2", "4">>
            [] k = "CLAIM TOTAL" -> Amounts11(<<"$", "1", "0", "0", ".", "0", "0">>, <<"$", "8", "0", ".", "0", "0">>, <<"$", "2", "0", ".", "0", "0">>)
            [] k = "Provider" -> <<"C", "I", "T", "Y", " ", "H", "O", "S", "P", "I", "T", "A", "L">>
            [] k = "Processed As" -> <<"I", "n", "-", "N", "e", "t", "w", "o", "r", "k">>],
      [k \in {"Service Dates", "CLAIM TOTAL", "DETAIL", "Mentions", "Service"} |->
          CASE k = "CLAIM TOTAL" -> SubSeq(Amounts11(<<"$", "1", ".", "0", "0">>, <<"$", "1", ".", "0", "0">>, <<"$", "1", ".", "0", "0">>), 1, 10)
            [] k = "Service Dates" -> <<"0", "3", "/", "0", "1", "/", "2", "0", "2", "4", " ", "-", " ", "0", "3", "/", "0", "1", "/", "2", "0", "2", "4">>
            [] k = "DETAIL" -> Amounts11(<<"$", "1", "0", "0", ".", "0", "0">>, <<"$", "8", "0", ".", "0", "0">>, <<"$", "2", "0", ".", "0", "0">>)
            [] k = "Mentions" -> {<<"A", "T", "H", "L", "E", "T", "I", "C", "O", " ", "L", "T", "D">>}
            [] k = "Service" -> <<"P", "H", "Y", "S", "I", "C", "A", "L", " ", "T", "H", "E", "R", "A", "P", "Y">>],
      [k \in {"CLAIM TOTAL", "Provider"} |->
          CASE k = "CLAIM TOTAL" -> Append(Amounts11(<<"$", "1", "0", "0", ".", "0", "0">>, <<"$", "8", "0", ".", "0", "0">>, <<"$", "2", "0", ".", "0", "0">>), <<"$", "5", ".", "0", "0">>)
            [] k = "Provider" -> <<"C", "I", "T", "Y", " ", "H", "O", "S", "P", "I", "T", "A", "L">>],
      [k \in {"Service Dates", "DETAIL", "GRAND TOTAL"} |->
          CASE k = "DETAIL" -> SubSeq(Amounts11(<<"$", "1", ".", "0", "0">>, <<"$", "1", ".", "0", "0">>, <<"$", "1", ".", "0", "0">>), 1, 10)
            [] k = "Service Dates" -> <<"0", "4", "/", "0", "2", "/", "2", "4">>
            [] k = "GRAND TOTAL" -> Amounts11(<<"$", "1", ",", "1", "0", "0", ".", "0", "0">>, <<"$", "8", "0", ".", "0", "0">>, <<"$", "2", "0", ".", "0", "0">>)],
      [k \in {"Service Dates", "CLAIM TOTAL"} |->
          CASE k = "Service Dates" -> <<"0", "3", "/", "0", "1", "/", "2", "0", "2", "4">>
            [] k = "CLAIM TOTAL" -> SubSeq(Amounts11(<<"$", "1", "0", "0", ".", "0", "0">>, <<"$", "8", "0", ".", "0", "0">>, <<"$", "2", "0", ".", "0", "0">>), 1, 10)] }

RECURSIVE SeqsOfLen(_, _)
SeqsOfLen(S, n) ==
    IF n = 0 THEN {<<>>}
    ELSE {Append(s, x) : s \in SeqsOfLen(S, n - 1), x \in S}

SeqsUpTo(S, n) == UNION {SeqsOfLen(S, k) : k \in 0..n}

\* the accumulator still open at the end of a document
OpenClaim == RawClaim(<<"0", "3", "/", "0", "1", "/", "2", "0", "2", "4">>, <<"P", "a", "i", "d">>, <<>>)

\* the parser states of an HTML document with at most n field maps and rows
HtmlParsers(n) ==
    UNION {{[claims |-> cs, current_claim |-> cc, rows |-> rs] :
                cs \in SeqsOfLen(RawClaims, i), rs \in SeqsOfLen(TraditionalRows, j),
                cc \in IF i + j < n THEN {EmptyDict, OpenClaim} ELSE {EmptyDict}} :
            <<i, j>> \in {p \in (0..n) \X (0..n) : p[1] + p[2] <= n}}

PdfTexts(n) ==
    {[k \in {"Patient", "sections"} |->
        IF k = "Patient" THEN <<"L", "E", "E", ",", " ", "A", "N", "N", " ", "P", "\n">> ELSE ss] : ss \in SeqsUpTo(PdfSections, n)}

DocumentSize(doc) ==
    IF doc.kind = "HTML"
    THEN Len(doc.input.claims) + Len(doc.input.rows)
             + (IF doc.input.current_claim = EmptyDict THEN 0 ELSE 1)
    ELSE Len(doc.input.sections)

RECURSIVE TotalSize(_)
TotalSize(docs) ==
    IF docs = <<>> THEN 0 ELSE DocumentSize(docs[1]) + TotalSize(Tail(docs))

(***************************************************************************)
(* html_to_json.py: HTMLTableParser, one tag event at a time.              *)
(***************************************************************************)
\* Python's None (no text is a sequence holding this element)
None == <<"None">>

\* HTMLTableParser.__init__
HTMLTableParser ==
    [in_tbody |-> FALSE, in_row |-> FALSE, current_row |-> <<>>, rows |-> <<>>,
     in_data_cell |-> FALSE, cell_data |-> <<>>,
     current_key |-> None, current_value |-> None,
     in_key_cell |-> FALSE, in_value_cell |-> FALSE,
     current_claim |-> EmptyDict, claims |-> <<>>,
     current_tr_class |-> None, in_a_tag |-> FALSE, current_a_title |-> None]

\* truth value of a str-or-None: neither None nor empty
Truthy(x) == x # None /\ x # <<>>

\* str(x)
StrOf(x) == IF x = None THEN <<"N", "o", "n", "e">> ELSE x

\* ' '.join(parts)
RECURSIVE Join(_)
Join(parts) ==
    IF parts = <<>> THEN <<>>
    ELSE IF Len(parts) = 1 THEN parts[1]
    ELSE parts[1] \o <<" ">> \o Join(Tail(parts))

\* html.unescape, restricted to the entity the inputs use
unescape(text) == Replace(text, <<"&", "a", "m", "p", ";">>, <<"&">>)

\* re.sub(r'\s+', ' ', text)
RECURSIVE CollapseWhitespace(_)
CollapseWhitespace(text) ==
    IF text = <<>> THEN <<>>
    ELSE IF text[1] \in Whitespace
    THEN LET rest == CollapseWhitespace(Tail(text))
         IN  IF Len(text) > 1 /\ text[2] \in Whitespace THEN rest ELSE <<" ">> \o rest
    ELSE <<text[1]>> \o CollapseWhitespace(Tail(text))

\* the text of a cell: joined, stripped, unescaped, whitespace runs collapsed
CellText(cell_data) == CollapseWhitespace(unescape(Strip(Join(cell_data))))

\* handle_starttag(tag, attrs)
StartTag(p, tag, attrs) ==
    LET class == Get(attrs, "class", <<>>)
    IN  CASE tag = "tbody" -> [p EXCEPT !.in_tbody = TRUE]
          [] tag = "tr" ->
                IF p.in_tbody
                THEN LET q == [p EXCEPT !.in_row = TRUE, !.current_row = <<>>,
                                        !.current_tr_class = class]
                     IN  IF Contains(class, <<"s", "t", "-", "k", "e", "y">>) \/ Contains(class, <<"s", "t", "-", "v", "a", "l">>)
                         THEN [q EXCEPT !.current_key = None, !.current_value = None]
                         ELSE q
                ELSE p
          [] tag = "td" ->
                IF p.in_row
                THEN IF Contains(class, <<"s", "t", "-", "k", "e", "y">>)
                     THEN [p EXCEPT !.in_key_cell = TRUE, !.in_data_cell = FALSE,
                                    !.cell_data = <<>>]
                     ELSE IF Contains(class, <<"s", "t", "-", "v", "a", "l">>)
                     THEN [p EXCEPT !.in_value_cell = TRUE, !.in_data_cell = FALSE,
                                    !.cell_data = <<>>]
                     ELSE [p EXCEPT !.in_data_cell = TRUE, !.cell_data = <<>>]
                ELSE p
          [] tag = "a" ->
                IF p.in_value_cell
                THEN [p EXCEPT !.in_a_tag = TRUE,
                               !.current_a_title = Get(attrs, "title", <<>>)]
                ELSE p
          [] OTHER -> p

\* key_lower of the row being closed
KeyLower(p) == Strip(Lower(p.current_key))

\* the accumulator holds a non-empty date
HasDate(current_claim) ==
    "date" \in DOMAIN current_claim /\ current_claim["date"] # <<>>

\* self.claims.append(self.current_claim.copy()); self.current_claim = {}
Flush(p) == [p EXCEPT !.claims = Append(@, p.current_claim), !.current_claim = EmptyDict]

\* faulty variant: the previous claim is saved but the accumulator is not emptied
FlushOnNewDate_no_reset(p) ==
    IF Contains(KeyLower(p), <<"d", "a", "t", "e">>) /\ HasDate(p.current_claim)
    THEN [p EXCEPT !.claims = Append(@, p.current_claim)]
    ELSE p

\* "if this is a Date field and we already have a claim with a date, save
\* the previous claim"
FlushOnNewDate(p) ==
    IF Contains(KeyLower(p), <<"d", "a", "t", "e">>) /\ HasDate(p.current_claim)
    THEN Flush(p)
    ELSE p

\* the field of the schema the label is mapped to, "none" when no rule matches
FieldOfKey(key_lower) ==
    IF Contains(key_lower, <<"d", "a", "t", "e">>) THEN "date"
    ELSE IF Contains(key_lower, <<"m", "e", "m", "b", "e", "r">>) THEN "member"
    ELSE IF Contains(key_lower, <<"f", "a", "c", "i", "l", "i", "t", "y">>) \/ Contains(key_lower, <<"p", "h", "y", "s", "i", "c", "i", "a", "n">>)
            \/ Contains(key_lower, <<"m", "e", "r", "c", "h", "a", "n", "t">>) THEN "provider"
    ELSE IF Contains(key_lower, <<"b", "i", "l", "l", "e", "d">>) /\ Contains(key_lower, <<"a", "m", "o", "u", "n", "t">>) THEN "billed"
    ELSE IF Contains(key_lower, <<"p", "l", "a", "n">>) /\ Contains(key_lower, <<"p", "a", "y", "m", "e", "n", "t">>)
    THEN "plan_payment"
    ELSE IF Contains(key_lower, <<"y", "o", "u", " ", "m", "a", "y", " ", "o", "w", "e">>) \/ Contains(key_lower, <<"y", "o", "u", "r", " ", "c", "o", "s", "t">>)
    THEN "you_owe"
    ELSE IF Contains(key_lower, <<"s", "t", "a", "t", "u", "s">>) THEN "status"
    ELSE IF Contains(key_lower, <<"e", "o", "b">>) \/ Contains(key_lower, <<"r", "e", "f", "e", "r", "e", "n", "c", "e">>)
    THEN "eob_reference"
    ELSE "none"

\* the EOB number: the title of the <a> tag, else the value text
EobValue(p) ==
    IF Truthy(p.current_a_title) THEN p.current_a_title
    ELSE IF Truthy(p.current_value) THEN Strip(p.current_value)
    ELSE <<>>

\* faulty variant: a label no rule matches is stored under its own text
MapKey_any_label(p) ==
    LET field == FieldOfKey(KeyLower(p))
    IN  IF field = "none"
        THEN [p EXCEPT !.current_claim = Put(@, "other", Strip(p.current_value))]
        ELSE IF field = "provider"
        THEN IF "provider" \notin DOMAIN p.current_claim
             THEN [p EXCEPT !.current_claim = Put(@, "provider", Strip(p.current_value))]
             ELSE p
        ELSE IF field = "eob_reference"
        THEN [p EXCEPT !.current_claim = Put(@, "eob_reference", EobValue(p))]
        ELSE [p EXCEPT !.current_claim = Put(@, field, Strip(p.current_value))]

\* "map keys to our schema"
MapKey(p) ==
    LET field == FieldOfKey(KeyLower(p))
    IN  IF field = "none" THEN p
        ELSE IF field = "provider"
        THEN IF "provider" \notin DOMAIN p.current_claim
             THEN [p EXCEPT !.current_claim = Put(@, "provider", Strip(p.current_value))]
             ELSE p
        ELSE IF field = "eob_reference"
        THEN [p EXCEPT !.current_claim = Put(@, "eob_reference", EobValue(p))]
        ELSE [p EXCEPT !.current_claim = Put(@, field, Strip(p.current_value))]

\* the row indicates the end of a claim: "Details" button or extra-border class
IsEndOfClaim(p) ==
    \/ Truthy(p.current_value) /\ Contains(Lower(p.current_value), <<"d", "e", "t", "a", "i", "l", "s">>)
    \/ Contains(StrOf(p.current_tr_class), <<"e", "x", "t", "r", "a", "-", "b", "o", "r", "d", "e", "r">>)

\* "save claim if it has a date"
FlushOnMarker(p) ==
    IF IsEndOfClaim(p) /\ HasDate(p.current_claim) THEN Flush(p) ELSE p

\* the key-value pair of the row is processed
HasKeyValue(p) == Truthy(p.current_key) /\ p.current_value # None

\* handle_endtag(tag)
EndTag(p, tag) ==
    CASE tag = "tbody" -> [p EXCEPT !.in_tbody = FALSE]
      [] tag = "tr" ->
            IF p.in_row
            THEN LET q == [p EXCEPT !.rows = IF Len(p.current_row) >= 6
                                             THEN Append(@, p.current_row) ELSE @,
                                    !.in_row = FALSE, !.current_row = <<>>]
                     r == IF HasKeyValue(q)
                          THEN FlushOnMarker(MapKey(FlushOnNewDate(q))) ELSE q
                 IN  [r EXCEPT !.current_key = None, !.current_value = None,
                               !.current_a_title = None]
            ELSE p
      [] tag = "td" ->
            IF p.in_data_cell
            THEN [p EXCEPT !.current_row = Append(@, CellText(p.cell_data)),
                           !.cell_data = <<>>, !.in_data_cell = FALSE]
            ELSE IF p.in_key_cell
            THEN [p EXCEPT !.current_key = CellText(p.cell_data),
                           !.cell_data = <<>>, !.in_key_cell = FALSE]
            ELSE IF p.in_value_cell
            THEN [p EXCEPT !.current_value = CellText(p.cell_data),
                           !.cell_data = <<>>, !.in_value_cell = FALSE]
            ELSE p
      [] tag = "a" -> IF p.in_a_tag THEN [p EXCEPT !.in_a_tag = FALSE] ELSE p
      [] OTHER -> p

\* handle_data(data)
Data(p, data) ==
    IF p.in_data_cell \/ p.in_key_cell \/ p.in_value_cell
    THEN [p EXCEPT !.cell_data = Append(@, data)]
    ELSE p

(***************************************************************************)
(* Calls of the field normalizers: the function called and the results of  *)
(* its successive applications, the first entry being the argument.        *)
(***************************************************************************)
NoCall == [fn |-> "none", applied |-> <<>>]

\* no directory is being processed
NoDirectory ==
    [name |-> <<>>, html_files |-> <<>>, pdf_files |-> <<>>, json |-> EmptyDict,
     composite |-> FALSE]

(***************************************************************************)
(* The pipeline: each document is extracted to its JSON claim list, then   *)
(* the JSON files are merged.                                              *)
(***************************************************************************)
Init ==
    /\ documents = <<>>
    /\ json_files = <<>>
    /\ merged_claims = <<>>
    /\ directory = NoDirectory
    /\ force = FALSE
    /\ all_json_files = <<>>
    /\ pc = "extract"
    /\ html_content = <<>>
    /\ feed = <<>>
    /\ self = HTMLTableParser
    /\ unique_claims = <<>>
    /\ norm = NoCall

\* html_to_json.py on one HTML document (the HTML files are processed first)
html_to_json ==
    /\ pc = "extract"
    /\ Len(documents) < MaxDocuments
    /\ \A i \in 1..Len(documents) : documents[i].kind = "HTML"
    /\ \E parser \in HtmlParsers(MaxClaims - TotalSize(documents)) :
          /\ documents' = Append(documents, [kind |-> "HTML", input |-> parser])
          /\ json_files' = Append(json_files,
                                  [source |-> "HTML", claims |-> parse_html_to_json(parser)])
    /\ UNCHANGED <<dir_vars, merged_claims, pc, parse_vars, norm>>

\* pdf_to_json.py on one PDF document
pdf_to_json ==
    /\ pc = "extract"
    /\ Len(documents) < MaxDocuments
    /\ \E pdf \in PdfTexts(MaxClaims - TotalSize(documents)) :
          /\ documents' = Append(documents, [kind |-> "PDF", input |-> pdf])
          /\ json_files' = Append(json_files,
                                  [source |-> "PDF", claims |-> parse_pdf_to_json(pdf)])
    /\ UNCHANGED <<dir_vars, merged_claims, pc, parse_vars, norm>>

FileClaims(files) == [i \in 1..Len(files) |-> files[i].claims]

FileSources(files) == [i \in 1..Len(files) |-> files[i].source]

\* merge_json.py: merge_claims over the JSON files written so far
merge_json ==
    /\ pc = "extract"
    /\ json_files # <<>>
    /\ merged_claims' = merge_claims(FileClaims(json_files), FileSources(json_files))
    /\ pc' = "merged"
    /\ UNCHANGED <<dir_vars, documents, json_files, parse_vars, norm>>

Next == html_to_json \/ pdf_to_json \/ merge_json

Spec == Init /\ [][Next]_vars

(***************************************************************************)
(* Vocabulary of the properties.                                           *)
(***************************************************************************)
RECURSIVE ClaimsOfSource(_, _)
ClaimsOfSource(files, source) ==
    IF files = <<>> THEN <<>>
    ELSE (IF files[1].source = source THEN files[1].claims ELSE <<>>)
             \o ClaimsOfSource(Tail(files), source)

\* the HTML and the PDF records merge_claims was given, in input order
HtmlInputs == ClaimsOfSource(json_files, "HTML")

PdfInputs == ClaimsOfSource(json_files, "PDF")

\* the 4-field key (Date, Billed Amt, Plan Payment, You May Owe) and the
\* 5-field key (with Status), as tuples
Key4(c) == <<c["Date"], c["Billed Amt"], c["Plan Payment"], c["You May Owe"]>>

Key5(c) == <<c["Date"], c["Billed Amt"], c["Plan Payment"], c["You May Owe"], c["Status"]>>

SourceTag(c) == c["In PDF/HTML?"]

HasIcon(c) == "has_pdf_icon" \in DOMAIN c /\ c["has_pdf_icon"]

NoIcon(c) == "has_pdf_icon" \in DOMAIN c /\ ~c["has_pdf_icon"]

\* the record is eligible for PDF matching (a missing has_pdf_icon counts as an icon)
Marked(c) == "has_pdf_icon" \notin DOMAIN c \/ c["has_pdf_icon"]

\* c as an output record with the given tag
Tagged(c, tag) ==
    [k \in (DOMAIN c \ {"has_pdf_icon"}) \cup {"In PDF/HTML?"} |->
        IF k = "In PDF/HTML?" THEN tag ELSE c[k]]

Indices(seq, Test(_)) == {i \in 1..Len(seq) : Test(seq[i])}

OutputsWithKey4(k) == {j \in 1..Len(merged_claims) : Key4(merged_claims[j]) = k}

\* the HTML input record i is the first one with its 5-field key
FirstWithKey5(i) == \A j \in 1..(i - 1) : Key5(HtmlInputs[j]) # Key5(HtmlInputs[i])

PdfHasKey4(k) == \E i \in 1..Len(PdfInputs) : Key4(PdfInputs[i]) = k

\* C1's case: exactly one HTML record has the key, it has the icon, and
\* exactly one PDF record has the key
C1_Case(k) ==
    /\ Cardinality({i \in 1..Len(HtmlInputs) : Key4(HtmlInputs[i]) = k}) = 1
    /\ \A i \in 1..Len(HtmlInputs) : Key4(HtmlInputs[i]) = k => HasIcon(HtmlInputs[i])
    /\ Cardinality({i \in 1..Len(PdfInputs) : Key4(PdfInputs[i]) = k}) = 1

\* C1: one HTML claim with has_pdf_icon true and one PDF claim with the same
\* 4-field key give exactly one output record for that key, tagged BOTH (so
\* no record tagged PDF has that key).
C1_MarkedMatchIsBoth ==
    pc = "merged" =>
        \A k \in {Key4(HtmlInputs[i]) : i \in 1..Len(HtmlInputs)} :
            C1_Case(k) =>
                /\ Cardinality(OutputsWithKey4(k)) = 1
                /\ \A j \in OutputsWithKey4(k) : SourceTag(merged_claims[j]) = TAG_BOTH

\* C1 witness: a merge whose input has such a pair, next to other records
C1_Witness ==
    /\ pc = "merged"
    /\ \E k \in {Key4(HtmlInputs[i]) : i \in 1..Len(HtmlInputs)} : C1_Case(k)
    /\ Len(merged_claims) >= 2

\* C2 (as stated): the scenario of two stacked claims that differ only in the
\* reference marker, plus one PDF claim with their 4-field key, yields exactly
\* two records, one BOTH and one HTML-no-icon, and no PDF record.
C2_Scenario ==
    /\ pc = "merged"
    /\ Len(documents) = 2
    /\ documents[1].kind = "HTML"
    /\ documents[1].input =
          [claims |-> <<RawClaim(<<"0", "3", "/", "0", "1", "/", "2", "0", "2", "4">>, <<"P", "a", "i", "d">>, <<"E", "1">>),
                        RawClaim(<<"0", "3", "/", "0", "1", "/", "2", "0", "2", "4">>, <<"P", "a", "i", "d">>, <<>>)>>,
           current_claim |-> EmptyDict, rows |-> <<>>]
    /\ documents[2].kind = "PDF"
    /\ Len(json_files[2].claims) = 1
    /\ Key4(json_files[2].claims[1]) = Key4(json_files[1].claims[1])

C2_ScenarioOutput ==
    C2_Scenario =>
        /\ Len(merged_claims) = 2
        /\ Cardinality(Indices(merged_claims, LAMBDA c : SourceTag(c) = TAG_BOTH)) = 1
        /\ Cardinality(Indices(merged_claims, LAMBDA c : SourceTag(c) = TAG_HTML_NO_ICON)) = 1
        /\ Indices(merged_claims, LAMBDA c : SourceTag(c) = TAG_PDF) = {}

\* the HTML input record has no PDF match: it has no icon, or no PDF record
\* has its 4-field key
Unmatched(h) == ~(Marked(h) /\ PdfHasKey4(Key4(h)))

MarkedHtmlHasKey4(k) ==
    \E i \in 1..Len(HtmlInputs) : Marked(HtmlInputs[i]) /\ Key4(HtmlInputs[i]) = k

PdfTaggedOutputs == Indices(merged_claims, LAMBDA c : SourceTag(c) = TAG_PDF)

\* C4: one output record tagged PDF per PDF input record whose
\* 4-field key no marked HTML record matched, also when two PDF input
\* records share a 4-field key.
C4_OnePdfOutputPerRecord ==
    pc = "merged" =>
        Cardinality(PdfTaggedOutputs)
            = Cardinality({i \in 1..Len(PdfInputs) : ~MarkedHtmlHasKey4(Key4(PdfInputs[i]))})

\* C5 (as stated): the number of output records tagged HTML, HTML-no-icon or
\* BOTH equals the number of HTML input records.
C5_EveryHtmlRecordOutput ==
    pc = "merged" =>
        Cardinality(Indices(merged_claims,
                            LAMBDA c : SourceTag(c) \in {TAG_HTML, TAG_HTML_NO_ICON, TAG_BOTH}))
            = Len(HtmlInputs)

\* the Date is one strptime reads with '%Y-%m-%d'
Parseable(c) == strptime(Get(c, "Date", <<>>), FMT_ISO).ok

DateOf(c) == Ordinal(strptime(Get(c, "Date", <<>>), FMT_ISO))

\* C6 (as stated): in the output, adjacent records a, b have a.Date >= b.Date,
\* and a record with an unparseable Date comes after every record with a
\* parseable one.
C6_SortedUnparseableLast ==
    pc = "merged" =>
        \A j \in 1..(Len(merged_claims) - 1) :
            LET a == merged_claims[j]
                b == merged_claims[j + 1]
            IN  /\ (Parseable(a) /\ Parseable(b)) => DateOf(a) >= DateOf(b)
                /\ ~(~Parseable(a) /\ Parseable(b))

Reverse(seq) == [i \in 1..Len(seq) |-> seq[Len(seq) + 1 - i]]

\* the same files in the opposite order, the records of each file reversed
ReorderedFiles == Reverse([i \in 1..Len(json_files) |->
                              [json_files[i] EXCEPT !.claims = Reverse(@)]])

\* C7 (as stated): the merged output is the same sequence of records for any
\* two orderings of the same files and records.
C7_OrderIndependent ==
    pc = "merged" =>
        merge_claims(FileClaims(ReorderedFiles), FileSources(ReorderedFiles)) = merged_claims

\* the text has the shape YYYY-MM-DD
IsIsoShape(s) ==
    /\ Len(s) = 10
    /\ \A i \in {1, 2, 3, 4, 6, 7, 9, 10} : s[i] \in Digits
    /\ s[5] = "-" /\ s[8] = "-"

\* every claim of every JSON file written so far
ExtractedClaims ==
    UNION {{json_files[i].claims[j] : j \in 1..Len(json_files[i].claims)} :
              i \in 1..Len(json_files)}

\* C8 (as stated): every extracted claim has a Date that is empty or has the
\* shape YYYY-MM-DD.
C8_DateEmptyOrIso ==
    \A c \in ExtractedClaims : c["Date"] = <<>> \/ IsIsoShape(c["Date"])

\* the raw date texts a document's claims are built from
RawDates(doc) ==
    IF doc.kind = "PDF"
    THEN {ServiceDateMatch(doc.input.sections[i]) : i \in 1..Len(doc.input.sections)}
    ELSE IF FinalClaims(doc.input) # <<>>
    THEN {Strip(Get(FinalClaims(doc.input)[i], "date", <<>>)) :
             i \in 1..Len(FinalClaims(doc.input))}
    ELSE {Strip(doc.input.rows[i][2]) : i \in 1..Len(doc.input.rows)}

\* the raw text is a calendar date written MM/DD/YYYY (year 1000 or later) or MM/DD/YY
IsSlashDate(raw) ==
    \/ strptime(raw, FMT_MDY4).ok /\ strptime(raw, FMT_MDY4).y >= 1000
    \/ strptime(raw, FMT_MDY2).ok

SlashDate(raw) ==
    IF strptime(raw, FMT_MDY4).ok THEN strptime(raw, FMT_MDY4) ELSE strptime(raw, FMT_MDY2)

\* C8 (amended): the Date of every extracted claim comes from a raw date text
\* of its document: it is that calendar date in the shape YYYY-MM-DD when the
\* raw text is a date written MM/DD/YYYY (year 1000 or later) or MM/DD/YY, and
\* the raw text itself, unchanged (empty when a PDF section has no service
\* date), when the raw text is a date in neither of these two formats.
C8_DateIsoOrRawText ==
    \A i \in 1..Len(json_files) :
        \A j \in 1..Len(json_files[i].claims) :
            \E raw \in RawDates(documents[i]) :
                LET date == json_files[i].claims[j]["Date"]
                IN  IF IsSlashDate(raw)
                    THEN /\ IsIsoShape(date)
                         /\ strptime(date, FMT_ISO) = SlashDate(raw)
                    ELSE strptime(raw, FMT_MDY4).ok \/ date = raw

\* C8 witness: an extracted Date that is neither empty nor of the shape
\* YYYY-MM-DD, next to one converted from a two-digit year
C8_Witness ==
    /\ \E c \in ExtractedClaims : c["Date"] # <<>> /\ ~IsIsoShape(c["Date"])
    /\ \E c \in ExtractedClaims : c["Date"] = <<"2", "0", "2", "4", "-", "0", "4", "-", "0", "2">>

\* C9 (as stated): no extracted claim has an empty Date.
C9_NoEmptyDate ==
    \A c \in ExtractedClaims : c["Date"] # <<>>

AllSource(source) == \A i \in 1..Len(json_files) : json_files[i].source = source

\* the records of all the files of the run, in order
RECURSIVE AllClaims(_)
AllClaims(files) ==
    IF files = <<>> THEN <<>> ELSE files[1].claims \o AllClaims(Tail(files))

\* C10 (as stated): when only HTML files or only PDF files are merged, the
\* output has exactly the records of the extracted lists, none dropped and
\* none added.
C10_SingleSourceKeepsAll ==
    (pc = "merged" /\ (AllSource("HTML") \/ AllSource("PDF"))) =>
        /\ Len(merged_claims) = Len(AllClaims(json_files))
        /\ \A i \in 1..Len(AllClaims(json_files)) :
              \E j \in 1..Len(merged_claims) :
                  Tagged(merged_claims[j], <<>>) = Tagged(AllClaims(json_files)[i], <<>>)

(***************************************************************************)
(* Properties of the HTML deduplication.                                   *)
(***************************************************************************)
IsStacked(doc) == doc.kind = "HTML" /\ FinalClaims(doc.input) # <<>>

IsTraditional(doc) == doc.kind = "HTML" /\ FinalClaims(doc.input) = <<>>

\* the claims of an HTML document as converted, before the deduplication
HtmlConverted(doc) ==
    IF IsStacked(doc) THEN ConvertStacked(FinalClaims(doc.input))
    ELSE ConvertTraditional(doc.input.rows)

\* the key the deduplication of the document's layout uses
HtmlDedupKey(doc, claim) ==
    IF IsStacked(doc) THEN StackedDedupKey(claim) ELSE TraditionalDedupKey(claim)

WithoutEob(claim) == [k \in DOMAIN claim \ {"EOB Reference"} |-> claim[k]]

HtmlDocuments == {i \in 1..Len(documents) : documents[i].kind = "HTML"}

FirstSeen(doc) ==
    LET pre == HtmlConverted(doc)
    IN  {j \in 1..Len(pre) :
            \A m \in 1..(j - 1) : HtmlDedupKey(doc, pre[m]) # HtmlDedupKey(doc, pre[j])}

KeptFieldMaps(doc) ==
    {FinalClaims(doc.input)[j] : j \in {m \in 1..Len(FinalClaims(doc.input)) :
                                            StackedKept(FinalClaims(doc.input)[m])}}

\* the field map had a non-empty eob_reference
HasEobReference(claim_data) == Strip(Get(claim_data, "eob_reference", <<>>)) # <<>>

\* the record is the claim of the field map, has_pdf_icon and EOB Reference aside
ClaimOfFieldMap(record, claim_data) ==
    [k \in DOMAIN record \ {"has_pdf_icon"} |-> record[k]]
        = [k \in DOMAIN StackedClaim(claim_data) \ {"has_pdf_icon", "EOB Reference"} |->
              StackedClaim(claim_data)[k]]

NoTransientField(record) ==
    "EOB Reference" \notin DOMAIN record /\ "has_pdf_icon" \notin DOMAIN record

MarkedWithKey4(k) ==
    {i \in 1..Len(HtmlInputs) : HasIcon(HtmlInputs[i]) /\ Key4(HtmlInputs[i]) = k}

\* C13's case: at least two HTML records with the icon have the key k, they
\* are the only HTML records with k and have pairwise different statuses,
\* and exactly one PDF record has k
C13_Case(k) ==
    /\ Cardinality(MarkedWithKey4(k)) >= 2
    /\ \A i \in 1..Len(HtmlInputs) : Key4(HtmlInputs[i]) = k => i \in MarkedWithKey4(k)
    /\ \A i, j \in MarkedWithKey4(k) :
          i # j => HtmlInputs[i]["Status"] # HtmlInputs[j]["Status"]
    /\ Cardinality({i \in 1..Len(PdfInputs) : Key4(PdfInputs[i]) = k}) = 1

\* C13: when several HTML records with the icon share one 4-field key and
\* differ in Status, and one PDF record has that key, every one of these HTML
\* records is output tagged BOTH and no output record with the key is tagged
\* PDF: the outputs with the key are exactly these records.
C13_ManyToOneAllBoth ==
    pc = "merged" =>
        \A k \in {Key4(HtmlInputs[i]) : i \in 1..Len(HtmlInputs)} :
            C13_Case(k) =>
                /\ \A i \in MarkedWithKey4(k) :
                      \E j \in OutputsWithKey4(k) :
                          merged_claims[j] = Tagged(HtmlInputs[i], TAG_BOTH)
                /\ \A j \in OutputsWithKey4(k) : SourceTag(merged_claims[j]) = TAG_BOTH
                /\ Cardinality(OutputsWithKey4(k)) = Cardinality(MarkedWithKey4(k))

\* C13 witness: a merge in which two HTML records with the icon, Paid and
\* Refund, share the 4-field key of one PDF record
C13_Witness ==
    /\ pc = "merged"
    /\ \E k \in {Key4(HtmlInputs[i]) : i \in 1..Len(HtmlInputs)} : C13_Case(k)

(***************************************************************************)
(* Properties of the amount fields.                                        *)
(***************************************************************************)
AmountFields == {"Billed Amt", "Plan Payment", "You May Owe"}

\* digits with at most one decimal point, after an optional leading sign
IsPlainAmount(s) ==
    LET body == IF s # <<>> /\ s[1] \in {"+", "-"} THEN Tail(s) ELSE s
    IN  /\ \A i \in 1..Len(body) : body[i] \in Digits \cup {"."}
        /\ Cardinality({i \in 1..Len(body) : body[i] = "."}) <= 1

NoCurrencyPunctuation(s) ==
    \A i \in 1..Len(s) : s[i] \notin {"$", ",", " ", "\t", "\n"}

\* C15: in every extracted claim the three amount fields hold only digits, an
\* optional decimal point and an optional leading sign.
C15_AmountsArePlain ==
    \A c \in ExtractedClaims : \A f \in AmountFields : IsPlainAmount(c[f])

\* C15 (amended): in every extracted claim the three amount fields hold no
\* '$', comma or whitespace; in a claim of the PDF extractor they hold only
\* digits and a decimal point, while in a claim of the HTML extractor they may
\* hold the other characters of a raw text that is not a number.
C15_AmountsWithoutPunctuation ==
    \A i \in 1..Len(json_files) :
        \A j \in 1..Len(json_files[i].claims) :
            \A f \in AmountFields :
                /\ NoCurrencyPunctuation(json_files[i].claims[j][f])
                /\ json_files[i].source = "PDF" => IsPlainAmount(json_files[i].claims[j][f])

\* C15 witness: an extracted amount that is not a number, next to one from
\* which a comma was removed
C15_Witness ==
    /\ \E c \in ExtractedClaims : \E f \in AmountFields : ~IsPlainAmount(c[f])
    /\ \E c \in ExtractedClaims : c["Billed Amt"] = <<"1", "1", "0", "0", ".", "0", "0">>

(***************************************************************************)
(* The field normalizers as functions: a text is normalized, and the       *)
(* result is normalized again.                                             *)
(***************************************************************************)
MaxAmountLen == 3

AmountAlphabet == {"$", ",", " ", "1", ".", "-"}

\* raw amount texts: every text over the alphabet, the empty one included
AmountTexts == SeqsUpTo(AmountAlphabet, MaxAmountLen)

MonthTexts == {<<"0", "3">>, <<"3">>, <<"1", "3">>, <<"0", "2">>}

DayTexts == {<<"0", "1">>, <<"1">>, <<"2", "9">>, <<"3", "0">>, <<" ", "1">>}

YearTexts == {<<"2", "0", "2", "4">>, <<"2", "0", "2", "3">>, <<"2", "4">>, <<"6", "9">>, <<"0", "9", "9", "9">>}

\* raw date texts: month, day and year in both orders with both separators,
\* the empty text and a text that is no date
DateTexts ==
    {m \o <<sep>> \o d \o <<sep>> \o y :
        m \in MonthTexts, d \in DayTexts, y \in YearTexts, sep \in {"/", "-"}}
    \cup {y \o <<sep>> \o m \o <<sep>> \o d :
        m \in MonthTexts, d \in DayTexts, y \in YearTexts, sep \in {"/", "-"}}
    \cup {<<>>, <<"n", "/", "a">>}

NormInit ==
    /\ documents = <<>>
    /\ json_files = <<>>
    /\ merged_claims = <<>>
    /\ directory = NoDirectory
    /\ force = FALSE
    /\ all_json_files = <<>>
    /\ pc = "normalize"
    /\ html_content = <<>>
    /\ feed = <<>>
    /\ self = HTMLTableParser
    /\ unique_claims = <<>>
    /\ norm \in {[fn |-> "normalize_date_to_iso", applied |-> <<x>>] : x \in DateTexts}
                \cup {[fn |-> "normalize_amount", applied |-> <<x>>] : x \in AmountTexts}

\* normalize_date_to_iso on the last result
call_normalize_date_to_iso ==
    /\ norm.fn = "normalize_date_to_iso"
    /\ Len(norm.applied) < 3
    /\ norm' = [norm EXCEPT !.applied =
                    Append(@, normalize_date_to_iso(norm.applied[Len(norm.applied)]))]
    /\ UNCHANGED <<dir_vars, pipeline_vars, pc, parse_vars>>

\* normalize_amount on the last result
call_normalize_amount ==
    /\ norm.fn = "normalize_amount"
    /\ Len(norm.applied) < 3
    /\ norm' = [norm EXCEPT !.applied =
                    Append(@, normalize_amount(norm.applied[Len(norm.applied)]))]
    /\ UNCHANGED <<dir_vars, pipeline_vars, pc, parse_vars>>

NormNext == call_normalize_date_to_iso \/ call_normalize_amount

NormSpec == NormInit /\ [][NormNext]_vars

\* the value is a str: a finite sequence of characters
IsText(s) == DOMAIN s = 1..Len(s) /\ \A i \in 1..Len(s) : s[i] \in STRING

\* C14: normalize_date_to_iso and normalize_amount return a text for every
\* text, the empty one included, and applying either to its own result
\* returns that result: f(f(x)) = f(x).
C14_Idempotent ==
    /\ \A i \in 1..Len(norm.applied) : IsText(norm.applied[i])
    /\ Len(norm.applied) = 3 => norm.applied[3] = norm.applied[2]

\* C14 witness: a date text that normalize_date_to_iso changed, normalized twice
C14_Witness ==
    /\ norm.fn = "normalize_date_to_iso"
    /\ Len(norm.applied) = 3
    /\ norm.applied[2] # norm.applied[1]
    /\ norm.applied[1] = <<"0", "3", "/", "0", "1", "/", "2", "4">>

(***************************************************************************)
(* parse_html_to_json on one document: parser.feed(html_content) calls the *)
(* handlers tag event by tag event, then the claims are converted.         *)
(***************************************************************************)
MaxRows == 3

\* a table row of the document: the class of its <tr>, and either a key cell
\* and a value cell (None: the cell is absent; title: the title of an <a>
\* around the value text, None without a link) or plain cells
StackedRow(class, key, value, title) ==
    [layout |-> "stacked", class |-> class, key |-> key, value |-> value,
     title |-> title, cells |-> <<>>]

TableRow(cells) ==
    [layout |-> "traditional", class |-> <<>>, key |-> None, value |-> None,
     title |-> None, cells |-> cells]

StackedRows ==
    { StackedRow(<<>>, <<"D", "a", "t", "e">>, <<"0", "3", "/", "0", "1", "/", "2", "0", "2", "4">>, None),
      StackedRow(<<>>, <<"D", "a", "t", "e">>, <<>>, None),
      StackedRow(<<"e", "x", "t", "r", "a", "-", "b", "o", "r", "d", "e", "r">>, <<"M", "e", "m", "b", "e", "r">>, <<"A", "N", "N", " ", "L", "E", "E">>, None),
      StackedRow(<<>>, <<"F", "a", "c", "i", "l", "i", "t", "y", "/", "P", "h", "y", "s", "i", "c", "i", "a", "n">>, <<"A", " ", "&", "a", "m", "p", ";", " ", "B", " ", " ", "C", "l", "i", "n", "i", "c">>, None),
      StackedRow(<<>>, <<"A", "c", "t", "i", "o", "n">>, <<"V", "i", "e", "w", " ", "D", "e", "t", "a", "i", "l", "s">>, None),
      StackedRow(<<>>, <<"C", "l", "a", "i", "m", " ", "N", "u", "m", "b", "e", "r">>, <<"1", "2", "3">>, None),
      StackedRow(<<>>, <<"E", "O", "B">>, <<"P", "D", "F">>, <<"E", "1">>) }

TableRows ==
    { TableRow(<< <<>>, <<"D", "a", "t", "e">>, <<"M", "e", "m", "b", "e", "r">>, <<"P", "r", "o", "v", "i", "d", "e", "r">>, <<"B", "i", "l", "l", "e", "d">>, <<"P", "l", "a", "n">> >>),
      TableRow(<< <<>>, <<"0", "4", "/", "0", "2", "/", "2", "0", "2", "4">>, <<"a", "n", "n", " ", "l", "e", "e">>, <<"C", "l", "i", "n", "i", "c">>, <<"$", "1", "0", "0", ".", "0", "0">>, <<"$", "8", "0", ".", "0", "0">> >>),
      TableRow(<< <<>>, <<"0", "5", "/", "0", "3", "/", "2", "0", "2", "4">> >>),
      TableRow(<< <<>>, <<"1", "2", "3">>, <<"a", "n", "n", " ", "l", "e", "e">>, <<"C", "l", "i", "n", "i", "c">>, <<"$", "1", "0", "0", ".", "0", "0">>, <<"$", "8", "0", ".", "0", "0">> >>) }

\* the documents: key/value rows followed by plain rows, at most n rows
HtmlContents(n) ==
    UNION {{s \o t : s \in SeqsOfLen(StackedRows, p[1]), t \in SeqsOfLen(TableRows, p[2])} :
              p \in {q \in (0..n) \X (0..n) : q[1] + q[2] <= n}}

starttag(tag, attrs) == [type |-> "starttag", tag |-> tag, attrs |-> attrs, data |-> <<>>]

endtag(tag) == [type |-> "endtag", tag |-> tag, attrs |-> EmptyDict, data |-> <<>>]

text(data) == [type |-> "data", tag |-> "", attrs |-> EmptyDict, data |-> data]

Attrs(name, value) == [k \in {name} |-> value]

\* the tag events of a cell with the given class and text
CellEvents(class, data) ==
    <<starttag("td", IF class = <<>> THEN EmptyDict ELSE Attrs("class", class))>>
        \o (IF data = <<>> THEN <<>> ELSE <<text(data)>>)
        \o <<endtag("td")>>

RECURSIVE CellsEvents(_)
CellsEvents(cells) ==
    IF cells = <<>> THEN <<>>
    ELSE CellEvents(<<>>, cells[1]) \o CellsEvents(Tail(cells))

\* the tag events of one row
RowEvents(row) ==
    <<starttag("tr", Attrs("class", row.class))>>
        \o (IF row.layout = "traditional" THEN CellsEvents(row.cells)
            ELSE (IF row.key = None THEN <<>> ELSE CellEvents(<<"s", "t", "-", "k", "e", "y">>, row.key))
                 \o (IF row.value = None THEN <<>>
                     ELSE IF row.title = None THEN CellEvents(<<"s", "t", "-", "v", "a", "l">>, row.value)
                     ELSE <<starttag("td", Attrs("class", <<"s", "t", "-", "v", "a", "l">>)),
                            starttag("a", Attrs("title", row.title)),
                            text(row.value), endtag("a"), endtag("td")>>))
        \o <<endtag("tr")>>

RECURSIVE RowsEvents(_)
RowsEvents(rows) ==
    IF rows = <<>> THEN <<>> ELSE RowEvents(rows[1]) \o RowsEvents(Tail(rows))

\* the tag events HTMLParser.feed produces for the document
Events(rows) ==
    <<starttag("tbody", EmptyDict)>> \o RowsEvents(rows) \o <<endtag("tbody")>>

ParserInit ==
    /\ documents = <<>>
    /\ json_files = <<>>
    /\ merged_claims = <<>>
    /\ directory = NoDirectory
    /\ force = FALSE
    /\ all_json_files = <<>>
    /\ norm = NoCall
    /\ pc = "feed"
    /\ html_content \in HtmlContents(MaxRows)
    /\ feed = Events(html_content)
    /\ self = HTMLTableParser
    /\ unique_claims = <<>>

handle_starttag ==
    /\ pc = "feed"
    /\ feed # <<>>
    /\ Head(feed).type = "starttag"
    /\ self' = StartTag(self, Head(feed).tag, Head(feed).attrs)
    /\ feed' = Tail(feed)
    /\ UNCHANGED <<dir_vars, pipeline_vars, pc, html_content, unique_claims, norm>>

handle_endtag ==
    /\ pc = "feed"
    /\ feed # <<>>
    /\ Head(feed).type = "endtag"
    /\ self' = EndTag(self, Head(feed).tag)
    /\ feed' = Tail(feed)
    /\ UNCHANGED <<dir_vars, pipeline_vars, pc, html_content, unique_claims, norm>>

handle_data ==
    /\ pc = "feed"
    /\ feed # <<>>
    /\ Head(feed).type = "data"
    /\ self' = Data(self, Head(feed).data)
    /\ feed' = Tail(feed)
    /\ UNCHANGED <<dir_vars, pipeline_vars, pc, html_content, unique_claims, norm>>

\* after parser.feed: the remaining claim is saved, the claims are converted
\* and deduplicated, and unique_claims is returned
return_unique_claims ==
    /\ pc = "feed"
    /\ feed = <<>>
    /\ self' = [self EXCEPT !.claims = FinalClaims(self)]
    /\ unique_claims' = parse_html_to_json(self)
    /\ pc' = "parsed"
    /\ UNCHANGED <<dir_vars, pipeline_vars, html_content, feed, norm>>

ParserNext == handle_starttag \/ handle_endtag \/ handle_data \/ return_unique_claims

ParserSpec == ParserInit /\ [][ParserNext]_vars

(***************************************************************************)
(* The rows of the document against the position of the parser in it.      *)
(***************************************************************************)
IsRowEnd(event) == event.type = "endtag" /\ event.tag = "tr"

\* the number of rows of the document whose </tr> has been handled
ClosedRows == Len(html_content) - Cardinality({i \in 1..Len(feed) : IsRowEnd(feed[i])})

\* the next tag event is the </tr> of a row; ClosingRow is that row
AtRowEnd == pc = "feed" /\ feed # <<>> /\ IsRowEnd(Head(feed))

ClosingRow == html_content[ClosedRows + 1]

\* the last tag event handled was the </tr> of a row; ClosedRow is that row
AfterRowEnd ==
    /\ pc = "feed" /\ feed # <<>> /\ ClosedRows >= 1
    /\ Head(feed) \in {starttag("tr", Attrs("class", c)) : c \in {r.class : r \in StackedRows \cup TableRows}}
                         \cup {endtag("tbody")}

ClosedRow == html_content[ClosedRows]

\* a key/value row with a label and a value cell
IsKeyValueRow(row) == row.layout = "stacked" /\ row.key # None /\ row.key # <<>> /\ row.value # None

IsDateRow(row) == IsKeyValueRow(row) /\ Contains(Lower(row.key), <<"d", "a", "t", "e">>)

\* the value text of a key/value row as the accumulator stores it
ValueText(row) == Strip(CellText(IF row.value = <<>> THEN <<>> ELSE <<row.value>>))

\* the claim being accumulated after n claims were emitted: entry n + 1 of the
\* emitted claims if it was emitted since, else the accumulator
ClaimAfter(p, n) == IF Len(p.claims) > n + 1 THEN p.claims[n + 2] ELSE p.current_claim

\* C16: whenever the </tr> of a date-labeled row is handled while the accumulator
\* holds a non-empty date, the accumulator is appended to the emitted claims as
\* one claim, and the claim that follows it holds the date of the row and no
\* other field.
C16_NewDateFlushesPrior ==
    [][(handle_endtag /\ AtRowEnd /\ IsDateRow(ClosingRow) /\ HasDate(self.current_claim))
         => /\ Len(self'.claims) > Len(self.claims)
            /\ SubSeq(self'.claims, 1, Len(self.claims) + 1) = Append(self.claims, self.current_claim)
            /\ DOMAIN ClaimAfter(self', Len(self.claims)) = {"date"}
            /\ ClaimAfter(self', Len(self.claims))["date"] = ValueText(ClosingRow)]_vars

\* a date row was closed, the claim emitted just before it has a provider, and
\* the accumulator holds the date only
C16_Witness ==
    /\ AfterRowEnd /\ IsDateRow(ClosedRow)
    /\ self.claims # <<>>
    /\ {"date", "provider"} \subseteq DOMAIN self.claims[Len(self.claims)]
    /\ self.current_claim = [date |-> ValueText(ClosedRow)]

\* a row whose value text contains 'details' or whose <tr> carries the
\* 'extra-border' class
IsMarkerRow(row) ==
    \/ row.value # None /\ Contains(Lower(row.value), <<"d", "e", "t", "a", "i", "l", "s">>)
    \/ Contains(row.class, <<"e", "x", "t", "r", "a", "-", "b", "o", "r", "d", "e", "r">>)

\* C17: whenever a row with value text containing 'details' or with the
\* 'extra-border' row class has been processed, the accumulator has been flushed:
\* it holds no field, so no field captured before the end of the marker row can
\* be joined by a field captured after it.
C17_MarkerFlushesAccumulator ==
    (AfterRowEnd /\ IsMarkerRow(ClosedRow)) => self.current_claim = EmptyDict

\* the run the statement fails on: a provider row, a 'details' row, a date row,
\* and one emitted claim holding the provider and the date
C17_FieldsAcrossMarker ==
    ~(/\ pc = "parsed" /\ Len(html_content) = 3
      /\ FieldOfKey(Strip(Lower(html_content[1].key))) = "provider"
      /\ IsMarkerRow(html_content[2])
      /\ IsDateRow(html_content[3])
      /\ Len(self.claims) = 1
      /\ {"provider", "date"} \subseteq DOMAIN self.claims[1])

\* a date-labeled row with a non-empty value
IsDatedRow(row) == IsDateRow(row) /\ ValueText(row) # <<>>

\* the values of the date-labeled rows with a non-empty value, in document order
RECURSIVE DatedValues(_)
DatedValues(rows) ==
    IF rows = <<>> THEN <<>>
    ELSE IF IsDatedRow(rows[1]) THEN <<ValueText(rows[1])>> \o DatedValues(Tail(rows))
    ELSE DatedValues(Tail(rows))

\* C18: at end of document the emitted raw claims are, in document order, one
\* per date-labeled row with a non-empty value, each holding the non-empty date
\* of its row, and an accumulator that still holds a non-empty date is the last
\* entry.
C18_OneClaimPerDatedRow ==
    pc = "parsed" =>
        /\ Len(self.claims) = Len(DatedValues(html_content))
        /\ \A i \in 1..Len(self.claims) :
              /\ HasDate(self.claims[i])
              /\ self.claims[i]["date"] = DatedValues(html_content)[i]
        /\ HasDate(self.current_claim) =>
              /\ self.claims # <<>>
              /\ self.claims[Len(self.claims)] = self.current_claim

\* two dated rows with a date row of empty value in the document: the first
\* claim was emitted by a later row, the second at end of document
C18_Witness ==
    /\ pc = "parsed"
    /\ Len(self.claims) = 2
    /\ HasDate(self.current_claim)
    /\ \E i \in 1..Len(html_content) : IsDateRow(html_content[i]) /\ ~IsDatedRow(html_content[i])

\* the cell texts of a table row as the parser stores them
RowCells(row) ==
    [i \in 1..Len(row.cells) |-> CellText(IF row.cells[i] = <<>> THEN <<>> ELSE <<row.cells[i]>>)]

\* the table rows of the document, by position
TableRowsOf(rows) == {i \in 1..Len(rows) : rows[i].layout = "traditional"}

\* the document is in the traditional layout: no date-labeled key/value row
\* with a non-empty value, so no stacked claim is emitted
InTraditionalLayout == DatedValues(html_content) = <<>>

\* the row yields an output claim: the claim built from its cells is returned
YieldsClaim(row) ==
    \E j \in 1..Len(unique_claims) : unique_claims[j] = TraditionalClaim(RowCells(row))

SixCellsNotHeader(row) == Len(row.cells) >= 6 /\ RowCells(row)[2] # <<"D", "a", "t", "e">>

\* the stripped date text is not empty and has a '/' or a '-' or 6 characters
DateLike(date_str) ==
    /\ date_str # <<>>
    /\ Contains(date_str, <<"/">>) \/ Contains(date_str, <<"-">>) \/ Len(date_str) >= 6

\* C19 as stated: in the traditional layout a table row yields an output claim
\* if and only if it has at least 6 cells and its second cell is not 'Date'.
C19_YieldsIffSixCellsNotHeader ==
    (pc = "parsed" /\ InTraditionalLayout) =>
        \A i \in TableRowsOf(html_content) :
            YieldsClaim(html_content[i]) <=> SixCellsNotHeader(html_content[i])

\* C19: in the traditional layout a table row yields an output claim if and
\* only if it has at least 6 cells, its second cell is not 'Date', and the
\* stripped text of its second cell looks like a date; every returned claim is
\* the claim of such a row, rows with the same Date, Facility/Physician and
\* Billed Amt yield one claim, and rows of fewer than 6 cells yield none.
C19_YieldsIffSixCellsDateLike ==
    (pc = "parsed" /\ InTraditionalLayout) =>
        LET accepted == {i \in TableRowsOf(html_content) :
                            /\ SixCellsNotHeader(html_content[i])
                            /\ DateLike(Strip(RowCells(html_content[i])[2]))}
        IN  /\ \A i \in TableRowsOf(html_content) :
                   YieldsClaim(html_content[i]) <=> i \in accepted
            /\ \A j \in 1..Len(unique_claims) :
                   \E i \in accepted : unique_claims[j] = TraditionalClaim(RowCells(html_content[i]))
            /\ Len(unique_claims) =
                   Cardinality({TraditionalDedupKey(TraditionalClaim(RowCells(html_content[i]))) :
                                   i \in accepted})

\* a document with a row that yields a claim, a row of 6 cells whose date text
\* does not look like a date, and a row of fewer than 6 cells
C19_Witness ==
    /\ pc = "parsed" /\ InTraditionalLayout
    /\ Len(unique_claims) = 1
    /\ \E i \in TableRowsOf(html_content) : YieldsClaim(html_content[i])
    /\ \E i \in TableRowsOf(html_content) :
          /\ SixCellsNotHeader(html_content[i])
          /\ ~DateLike(Strip(RowCells(html_content[i])[2]))
    /\ \E i \in TableRowsOf(html_content) : Len(html_content[i].cells) < 6

\* a key/value row whose label matches none of the recognized field rules
IsUnrecognizedRow(row) == IsKeyValueRow(row) /\ FieldOfKey(Strip(Lower(row.key))) = "none"

\* a tag event of a row before its </tr> is handled
WithinRow == pc = "feed" /\ pc' = "feed" /\ ~AtRowEnd /\ ClosedRows < Len(html_content)

\* C20 as stated: processing a key/value row with an unrecognized label leaves
\* the accumulator and the emitted claims unchanged.
C20_UnrecognizedRowChangesNothing ==
    [][/\ (WithinRow /\ IsUnrecognizedRow(ClosingRow))
           => (self'.current_claim = self.current_claim /\ self'.claims = self.claims)
       /\ (handle_endtag /\ AtRowEnd /\ IsUnrecognizedRow(ClosingRow))
           => (self'.current_claim = self.current_claim /\ self'.claims = self.claims)]_vars

\* C20: processing a key/value row with an unrecognized label stores no field;
\* it leaves the accumulator and the emitted claims unchanged, unless the row
\* is a terminal marker and the accumulator holds a non-empty date: then the
\* accumulator is emitted as it was and emptied.
C20_UnrecognizedRowStoresNothing ==
    [][/\ (WithinRow /\ IsUnrecognizedRow(ClosingRow))
           => (self'.current_claim = self.current_claim /\ self'.claims = self.claims)
       /\ (handle_endtag /\ AtRowEnd /\ IsUnrecognizedRow(ClosingRow))
           => IF IsMarkerRow(ClosingRow) /\ HasDate(self.current_claim)
              THEN /\ self'.claims = Append(self.claims, self.current_claim)
                   /\ self'.current_claim = EmptyDict
              ELSE /\ self'.current_claim = self.current_claim
                   /\ self'.claims = self.claims]_vars

\* a date row, an unrecognized row and an unrecognized marker row were
\* processed: the date was kept across the first and emitted alone at the second
C20_Witness ==
    /\ AfterRowEnd /\ ClosedRows = 3
    /\ IsDatedRow(html_content[1])
    /\ IsUnrecognizedRow(html_content[2]) /\ ~IsMarkerRow(html_content[2])
    /\ IsUnrecognizedRow(html_content[3]) /\ IsMarkerRow(html_content[3])
    /\ self.claims = <<[date |-> ValueText(html_content[1])]>>
    /\ self.current_claim = EmptyDict

(***************************************************************************)
(* The amount tiers of the PDF extractor.                                  *)
(***************************************************************************)
TIERS == <<"CLAIM TOTAL", "DETAIL", "GRAND TOTAL">>

\* the first tier, in order, whose label is followed by exactly 11 currency
\* numbers; 0 when there is none
ExactTier(section) ==
    LET exact == {t \in 1..Len(TIERS) :
                     TIERS[t] \in DOMAIN section /\ Len(section[TIERS[t]]) = AMOUNT_COUNT}
    IN  IF exact = {} THEN 0 ELSE CHOOSE t \in exact : \A u \in exact : t <= u

\* the sections with such a tier, in order
RECURSIVE WithExactTier(_)
WithExactTier(sections) ==
    IF sections = <<>> THEN <<>>
    ELSE (IF ExactTier(sections[1]) # 0 THEN <<sections[1]>> ELSE <<>>)
             \o WithExactTier(Tail(sections))

PdfDocuments == {i \in 1..Len(documents) : documents[i].kind = "PDF"}

\* C21: the claims of a PDF document are, in order, those of its sections in
\* which a tier (CLAIM TOTAL, then the service-category line, then GRAND TOTAL)
\* is followed by exactly 11 currency numbers, with the amounts at positions 1,
\* 5 and 11 of the first such tier; the other sections are not emitted.
C21_ExactlyElevenOrSkipped ==
    \A i \in PdfDocuments :
        LET emitted == WithExactTier(documents[i].input.sections)
            claims == json_files[i].claims
        IN  /\ Len(claims) = Len(emitted)
            /\ \A j \in 1..Len(claims) :
                  LET amounts == emitted[j][TIERS[ExactTier(emitted[j])]]
                  IN  /\ claims[j]["Billed Amt"] = normalize_amount(amounts[1])
                      /\ claims[j]["Plan Payment"] = normalize_amount(amounts[PLAN_PAYMENT_COLUMN])
                      /\ claims[j]["You May Owe"] = normalize_amount(amounts[AMOUNT_COUNT])

\* the same for the documents whose tiers are never followed by more than 11
\* numbers: a skipped section raises no error and the sections after it are
\* still converted
NoLongRun(section) ==
    \A t \in 1..Len(TIERS) : TIERS[t] \in DOMAIN section => Len(section[TIERS[t]]) <= AMOUNT_COUNT

C21_TiersInOrderWithoutLongRuns ==
    \A i \in PdfDocuments :
        (\A j \in 1..Len(documents[i].input.sections) : NoLongRun(documents[i].input.sections[j]))
            => LET emitted == WithExactTier(documents[i].input.sections)
                   claims == json_files[i].claims
               IN  /\ Len(claims) = Len(emitted)
                   /\ \A j \in 1..Len(claims) :
                         LET amounts == emitted[j][TIERS[ExactTier(emitted[j])]]
                         IN  /\ claims[j]["Billed Amt"] = normalize_amount(amounts[1])
                             /\ claims[j]["Plan Payment"] = normalize_amount(amounts[PLAN_PAYMENT_COLUMN])
                             /\ claims[j]["You May Owe"] = normalize_amount(amounts[AMOUNT_COUNT])

\* a returned claim of the stacked layout carries has_pdf_icon, a claim of the
\* traditional layout does not
FromStackedLayout(claim) == "has_pdf_icon" \in DOMAIN claim

\* C22: when the document yields at least one stacked-layout claim, every
\* returned claim is a stacked-layout claim and no table row yields a claim;
\* a claim of a table row is returned only when the stacked claim list is empty.
C22_LayoutsExclusive ==
    pc = "parsed" =>
        /\ self.claims # <<>> =>
              /\ \A j \in 1..Len(unique_claims) : FromStackedLayout(unique_claims[j])
              /\ \A i \in TableRowsOf(html_content) : ~YieldsClaim(html_content[i])
              /\ Len(unique_claims) <= Len(self.claims)
        /\ (\E j \in 1..Len(unique_claims) : ~FromStackedLayout(unique_claims[j]))
              => self.claims = <<>>

\* a document with a stacked claim and a table row that would be accepted:
\* the stacked claim is returned alone
C22_Witness ==
    /\ pc = "parsed"
    /\ self.claims # <<>>
    /\ Len(unique_claims) = 1
    /\ \E i \in TableRowsOf(html_content) :
          /\ SixCellsNotHeader(html_content[i])
          /\ DateLike(Strip(RowCells(html_content[i])[2]))

\* the HTML input record has no has_pdf_icon field at all
NoIconField(c) == "has_pdf_icon" \notin DOMAIN c

MaxFiles == 2

HtmlStems == {<<"B", "C", "B", "S", "_", "c", "l", "a", "i", "m", "s">>, <<"c", "l", "a", "i", "m", "s">>}

PdfStems == {<<"B", "C", "B", "S", "_", "e", "o", "b">>, <<"e", "o", "b">>}

\* the content of an HTML file as the parser state after feed()
HtmlFileInputs ==
    {[claims |-> <<RawClaim(<<"0", "3", "/", "0", "1", "/", "2", "0", "2", "4">>, <<"P", "a", "i", "d">>, <<"E", "1">>)>>, current_claim |-> EmptyDict,
      rows |-> <<>>]}
    \cup {[claims |-> <<>>, current_claim |-> EmptyDict, rows |-> <<row>>] :
             row \in {r \in TraditionalRows : r[2] # <<"D", "a", "t", "e">>}}

\* the content of a PDF file: one section with a provider line, or one with
\* a GRAND TOTAL line
PdfFileInputs ==
    {pdf \in PdfTexts(1) :
        /\ Len(pdf.sections) = 1
        /\ "Service Dates" \in DOMAIN pdf.sections[1]
        /\ "Provider" \in DOMAIN pdf.sections[1] \/ "GRAND TOTAL" \in DOMAIN pdf.sections[1]}

\* the file lists of n files with distinct stems
FileLists(stems, inputs, n) ==
    {fs \in SeqsOfLen({[stem |-> st, input |-> inp] : st \in stems, inp \in inputs}, n) :
        \A i, j \in 1..n : i # j => fs[i].stem # fs[j].stem}

\* directory / f"{stem}.json" as str
JsonPath(name, stem) == name \o <<"/">> \o stem \o <<".", "j", "s", "o", "n">>

\* the JSON files a previous run left for some of the files
RECURSIVE WithJson(_, _, _, _)
WithJson(json, name, files, kind) ==
    IF files = <<>> THEN json
    ELSE WithJson(Put(json, JsonPath(name, files[1].stem),
                      IF kind = "HTML" THEN parse_html_to_json(files[1].input)
                      ELSE parse_pdf_to_json(files[1].input)),
                  name, Tail(files), kind)

Sublists(files) ==
    {[i \in 1..Cardinality(keep) |->
         files[CHOOSE k \in keep : Cardinality({m \in keep : m < k}) = i - 1]] :
        keep \in SUBSET (1..Len(files))}

\* the directories over the given file lists: some JSON files exist already
DirectoriesOf(hs, ps) ==
    {[name |-> <<"a", "u", "d", "i", "t">>, html_files |-> hs, pdf_files |-> ps,
      json |-> WithJson(WithJson(EmptyDict, <<"a", "u", "d", "i", "t">>, old_hs, "HTML"), <<"a", "u", "d", "i", "t">>, old_ps, "PDF"),
      composite |-> c] :
        old_hs \in Sublists(hs), old_ps \in Sublists(ps), c \in BOOLEAN}

Directories(n) ==
    UNION {UNION {DirectoriesOf(fl[1], fl[2]) :
                     fl \in FileLists(HtmlStems, HtmlFileInputs, p[1])
                                \X FileLists(PdfStems, PdfFileInputs, p[2])} :
              p \in {q \in (0..n) \X (0..n) : q[1] + q[2] <= n}}

DirInit ==
    /\ documents = <<>>
    /\ json_files = <<>>
    /\ merged_claims = <<>>
    /\ pc = "process"
    /\ html_content = <<>>
    /\ feed = <<>>
    /\ self = HTMLTableParser
    /\ unique_claims = <<>>
    /\ norm = NoCall
    /\ directory \in Directories(MaxFiles)
    /\ force \in BOOLEAN
    /\ all_json_files = <<>>

\* html_to_json.py main: the output file exists and --force is not given
Skipping(output_path) == output_path \in DOMAIN directory.json /\ ~force

\* one iteration of the loop over html_files: html_to_json.py is run; when it
\* skips, the JSON file is not collected
process_html_file ==
    /\ pc = "process"
    /\ Len(documents) < Len(directory.html_files)
    /\ LET html_file == directory.html_files[Len(documents) + 1]
           json_file == JsonPath(directory.name, html_file.stem)
       IN  /\ documents' = Append(documents, [kind |-> "HTML", input |-> html_file.input])
           /\ IF Skipping(json_file)
              THEN UNCHANGED <<directory, all_json_files>>
              ELSE /\ directory' = [directory EXCEPT !.json =
                                       Put(@, json_file, parse_html_to_json(html_file.input))]
                   /\ all_json_files' = Append(all_json_files, json_file)
    /\ UNCHANGED <<json_files, merged_claims, pc, parse_vars, norm, force>>

\* one iteration of the loop over pdf_files: pdf_to_json.py writes the JSON
\* file whether it exists or not
process_pdf_file ==
    /\ pc = "process"
    /\ Len(documents) >= Len(directory.html_files)
    /\ Len(documents) < Len(directory.html_files) + Len(directory.pdf_files)
    /\ LET pdf_file == directory.pdf_files[Len(documents) - Len(directory.html_files) + 1]
           json_file == JsonPath(directory.name, pdf_file.stem)
       IN  /\ documents' = Append(documents, [kind |-> "PDF", input |-> pdf_file.input])
           /\ directory' = [directory EXCEPT !.json =
                               Put(@, json_file, parse_pdf_to_json(pdf_file.input))]
           /\ all_json_files' = Append(all_json_files, json_file)
    /\ UNCHANGED <<json_files, merged_claims, pc, parse_vars, norm, force>>

\* Path(arg).name
FileName(arg) == LET parts == Split(arg, <<"/">>) IN parts[Len(parts)]

\* merge_json.py main: the source of an input file, from its name
SourceOfFile(arg) ==
    IF Contains(FileName(arg), <<"B", "C", "B", "S">>) \/ Contains(arg, <<".", "h", "t", "m", "l">>) THEN "HTML" ELSE "PDF"

\* merge_json.py main: the arguments with suffix .json
RECURSIVE InputJsonFiles(_)
InputJsonFiles(args) ==
    IF args = <<>> THEN <<>>
    ELSE (IF EndsWith(args[1], <<".", "j", "s", "o", "n">>) THEN <<args[1]>> ELSE <<>>)
             \o InputJsonFiles(Tail(args))

\* merge_json.py main on the collected files, the claims read from disk
merge_json_main(args) ==
    LET files == InputJsonFiles(args)
    IN  merge_claims([i \in 1..Len(files) |-> directory.json[files[i]]],
                     [i \in 1..Len(files) |-> SourceOfFile(files[i])])

\* after the loops: the composite is generated if any JSON file was collected
\* and merge_json.py does not skip; the composite JSON file is removed at the end
generate_composite ==
    /\ pc = "process"
    /\ Len(documents) = Len(directory.html_files) + Len(directory.pdf_files)
    /\ IF all_json_files # <<>> /\ ~(directory.composite /\ ~force)
       THEN /\ merged_claims' = merge_json_main(all_json_files)
            /\ directory' = [directory EXCEPT !.composite = FALSE]
            /\ pc' = "composite"
       ELSE /\ pc' = "done"
            /\ UNCHANGED <<merged_claims, directory>>
    /\ UNCHANGED <<documents, json_files, parse_vars, norm, force, all_json_files>>

DirNext == process_html_file \/ process_pdf_file \/ generate_composite

DirSpec == DirInit /\ [][DirNext]_vars

(***************************************************************************)
(* The source files of the directory against the composite.                *)
(***************************************************************************)
\* the paths of the per-document JSON files of the HTML and of the PDF files
HtmlJsonPaths ==
    {JsonPath(directory.name, directory.html_files[i].stem) : i \in 1..Len(directory.html_files)}

PdfJsonPaths ==
    {JsonPath(directory.name, directory.pdf_files[i].stem) : i \in 1..Len(directory.pdf_files)}

\* the claims of a JSON file on disk
ClaimsOnDisk(path) == {directory.json[path][i] : i \in 1..Len(directory.json[path])}

\* the composite has a record for the claim: one with its 4-field key
InComposite(claim) == \E j \in 1..Len(merged_claims) : Key4(merged_claims[j]) = Key4(claim)

\* C24: after a run that builds a composite, the claims of every source
\* document whose per-document JSON file exists are in the composite, also
\* when the extraction of the document was skipped.
C24_EveryExistingJsonInComposite ==
    pc = "composite" =>
        \A path \in (HtmlJsonPaths \cup PdfJsonPaths) \cap DOMAIN directory.json :
            \A claim \in ClaimsOnDisk(path) : InComposite(claim)

\* the run the statement fails on: the JSON file of an HTML document existed,
\* --force was not given, and the composite was built without its claims
C24_SkippedDocumentLeftOut ==
    ~(/\ pc = "composite" /\ ~force
      /\ \E path \in HtmlJsonPaths \cap DOMAIN directory.json :
            /\ \A i \in 1..Len(all_json_files) : all_json_files[i] # path
            /\ \E claim \in ClaimsOnDisk(path) : ~InComposite(claim))

\* the kind of the source document a per-document JSON file was extracted from
KindOfJson(path) == IF path \in HtmlJsonPaths THEN "HTML" ELSE "PDF"

\* some claim extracted from a PDF document has the 4-field key of the record
FromPdfDocument(record) ==
    \E path \in PdfJsonPaths \cap DOMAIN directory.json :
        \E claim \in ClaimsOnDisk(path) : Key4(claim) = Key4(record)

\* C25: in a run of process_directory, every JSON file given to merge_json is
\* reconciled with the source of the document it was extracted from, and a
\* record tagged PDF has the 4-field key of a claim of some PDF document.
C25_SourceIsDocumentKind ==
    pc = "composite" =>
        /\ \A i \in 1..Len(all_json_files) :
              SourceOfFile(all_json_files[i]) = KindOfJson(all_json_files[i])
        /\ \A j \in 1..Len(merged_claims) :
              SourceTag(merged_claims[j]) = TAG_PDF => FromPdfDocument(merged_claims[j])

\* the run the statement fails on: a directory with one HTML file and no PDF
\* file, and a composite record tagged PDF
C25_HtmlOnlyClaimTaggedPdf ==
    ~(/\ pc = "composite"
      /\ directory.pdf_files = <<>>
      /\ \E j \in 1..Len(merged_claims) : SourceTag(merged_claims[j]) = TAG_PDF)

====
